---- MODULE Spec2Model ----
(***************************************************************************)
(* A model of the template parser of vue-compiler (crates/compiler-core):   *)
(* the tokenizer state machine (tokenizer.rs) driving the tree builder      *)
(* callbacks (parser.rs).  Characters are their code points, strings are    *)
(* sequences of code points, Option<usize> None is -1, and a Rust panic     *)
(* (index out of bounds, slice error, todo!(), unreachable!()) is recorded  *)
(* in the field `panic` and ends the run.                                   *)
(***************************************************************************)
EXTENDS Integers, Sequences, FiniteSets, TLC

VARIABLES
    buffer,     \* Tokenizer.buffer / ParserContext.current_input: the input
    options,    \* ParserContext.current_options
    tokenizer,  \* the Tokenizer and its ParserContext, one record
    phase,      \* "parsing" | "ended" | "done" | "panicked" : position in base_parse
    root,       \* the RootNode base_parse returns
    cw,         \* state of the whitespace-condensation harness
    tr          \* the rest of base_compile: the TransformContext and the generated code

vars == <<buffer, options, tokenizer, phase, root, cw, tr>>

----------------------------------------------------------------------------
(* CharCodes (tokenizer.rs) *)
Tab == 9
NewLine == 10
FormFeed == 12
CarriageReturn == 13
Space == 32
ExclamationMark == 33
Number == 35
Amp == 38
SingleQuote == 39
DoubleQuote == 34
GraveAccent == 96
Dash == 45
Slash == 47
Semi == 59
Lt == 60
Eq == 61
Gt == 62
Questionmark == 63
UpperA == 65
LowerA == 97
UpperZ == 90
LowerZ == 122
LowerV == 118
Dot == 46
Colon == 58
At == 64
LeftSquare == 91
RightSquare == 93
\* 's' and 't', compared as literals in state_before_tag_name
LowerS == 115
LowerT == 116

None == -1
NoneNode == [type |-> "None"]

\* string literals of the source, as code points
Str_slot == <<115, 108, 111, 116>>
Str_template == <<116, 101, 109, 112, 108, 97, 116, 101>>
Str_component == <<99, 111, 109, 112, 111, 110, 101, 110, 116>>
Str_is == <<105, 115>>
Str_vue == <<118, 117, 101, 58>>
Str_class == <<99, 108, 97, 115, 115>>
Str_pre == <<112, 114, 101>>
Str_for == <<102, 111, 114>>
Str_on == <<111, 110>>
Str_bind == <<98, 105, 110, 100>>
Str_if == <<105, 102>>
Str_else == <<101, 108, 115, 101>>
Str_else_if == <<101, 108, 115, 101, 45, 105, 102>>
Str_lang == <<108, 97, 110, 103>>
Str_html == <<104, 116, 109, 108>>
Str_prop == <<112, 114, 111, 112>>
Str_svg == <<115, 118, 103>>
Str_math == <<109, 97, 116, 104>>
Str_lt_slash == <<60, 47>>
Str_lt_slash_template == <<60, 47, 116, 101, 109, 112, 108, 97, 116, 101>>

----------------------------------------------------------------------------
(* small helpers on sequences *)
Min(S) == CHOOSE x \in S : \A y \in S : x <= y
Max(S) == CHOOSE x \in S : \A y \in S : x >= y
Last(s) == s[Len(s)]
Front(s) == SubSeq(s, 1, Len(s) - 1)

RECURSIVE SumSeq(_)
SumSeq(s) == IF s = <<>> THEN 0 ELSE s[1] + SumSeq(Tail(s))

RECURSIVE Concat(_)
Concat(ss) == IF ss = <<>> THEN <<>> ELSE ss[1] \o Concat(Tail(ss))

StartsWith(s, p) == Len(s) >= Len(p) /\ SubSeq(s, 1, Len(p)) = p

\* char::to_lowercase on the characters of the model (ASCII and Latin-1)
ToLowerChar(c) ==
    IF (c >= UpperA /\ c <= UpperZ) \/ (c >= 192 /\ c <= 222 /\ c # 215) THEN c + 32 ELSE c
ToLower(s) == [i \in 1..Len(s) |-> ToLowerChar(s[i])]

\* c | 0x20 on a code point
Or20(c) == IF (c \div 32) % 2 = 0 THEN c + 32 ELSE c

\* UTF-8 length of a character (code points below U+0800)
Utf8Len(c) == IF c < 128 THEN 1 ELSE 2
\* byte offset of the character with index i (0-based); i = Len(s) is the end
ByteOffset(s, i) == SumSeq([k \in 1..i |-> Utf8Len(s[k])])
\* str::len
ByteLen(s) == ByteOffset(s, Len(s))
IsCharBoundary(s, b) == \E i \in 0..Len(s) : ByteOffset(s, i) = b
CharIndexOfByte(s, b) == CHOOSE i \in 0..Len(s) : ByteOffset(s, i) = b

----------------------------------------------------------------------------
(* tokenizer.rs: character classes *)
is_tag_start_char(c) ==
    (c >= LowerA /\ c <= LowerZ) \/ (c >= UpperA /\ c <= UpperZ)

is_whitespace(c) ==
    c = Space \/ c = NewLine \/ c = Tab \/ c = FormFeed \/ c = CarriageReturn

is_end_of_tag_section(c) == c = Slash \/ c = Gt \/ is_whitespace(c)

(* Sequences::new *)
Seq_cdata == <<67, 68, 65, 84, 65, 91>>
Seq_cdata_end == <<93, 93, 62>>
Seq_comment_end == <<45, 45, 62>>
Seq_script_end == <<60, 47, 115, 99, 114, 105, 112, 116>>
Seq_style_end == <<60, 47, 115, 116, 121, 108, 101>>
Seq_title_end == <<60, 47, 116, 105, 116, 108, 101>>
Seq_textarea_end == <<60, 47, 116, 101, 120, 116, 97, 114, 101, 97>>

(* utils.rs *)
is_all_whitespace(str) == ~ \E i \in 1..Len(str) : ~is_whitespace(str[i])

is_core_component(tag) ==
    tag \in { <<84, 101, 108, 101, 112, 111, 114, 116>>,
              <<116, 101, 108, 101, 112, 111, 114, 116>>,
              <<83, 117, 115, 112, 101, 110, 115, 101>>,
              <<115, 117, 115, 112, 101, 110, 115, 101>>,
              <<75, 101, 101, 112, 65, 108, 105, 118, 101>>,
              <<107, 101, 101, 112, 45, 97, 108, 105, 118, 101>>,
              <<66, 97, 115, 101, 84, 114, 97, 110, 115, 105, 116, 105, 111, 110>>,
              <<98, 97, 115, 101, 45, 116, 114, 97, 110, 115, 105, 116, 105, 111, 110>> }

is_v_pre(p) == p.type = "Directive" /\ p.name = Str_pre

----------------------------------------------------------------------------
(* Positions and locations *)

\* SourceLocation::loc_stub
loc_stub ==
    [start |-> [offset |-> 0, line |-> 1, column |-> 1],
     end |-> [offset |-> 0, line |-> 1, column |-> 1],
     source |-> <<>>]

\* Tokenizer::get_pos: the newline table is walked from its last entry, and
\* `i` counts the entries walked (`.iter().rev().enumerate()`)
get_pos(t, index) ==
    LET n == Len(t.newlines)
        hits == {i \in 0..(n - 1) : index > t.newlines[n - i]}
    IN IF hits = {}
       THEN [offset |-> index, line |-> 1, column |-> index + 1]
       ELSE LET i == Min(hits)
            IN [offset |-> index, line |-> i + 2, column |-> index - t.newlines[n - i]]

\* whether str[start..end] is a valid slice of a Rust str (it panics otherwise):
\* the offsets are byte offsets and must fall on character boundaries
str_slice_ok(str, start, end) ==
    /\ start >= 0
    /\ start <= end
    /\ IsCharBoundary(str, start)
    /\ IsCharBoundary(str, end)
str_slice(str, start, end) ==
    SubSeq(str, CharIndexOfByte(str, start) + 1, CharIndexOfByte(str, end))

slice_ok(start, end) == str_slice_ok(buffer, start, end)

\* Tokenizer::get_slice: a byte-offset slice of current_input
get_slice(start, end) == str_slice(buffer, start, end)

\* get_loc(start, Some(end))
get_loc(t, start, end) ==
    [start |-> get_pos(t, start), end |-> get_pos(t, end), source |-> get_slice(start, end)]

\* set_loc_end
set_loc_end(t, loc, end) ==
    [loc EXCEPT !.end = get_pos(t, end), !.source = get_slice(loc.start.offset, end)]

\* a Rust panic: the run ends here
Panic(t, why) == IF t.panic # "none" THEN t ELSE [t EXCEPT !.panic = why]

----------------------------------------------------------------------------
(* AST nodes (ast.rs) *)

TextNode(content, loc) == [type |-> "Text", content |-> content, loc |-> loc]
CommentNode(content, loc) == [type |-> "Comment", content |-> content, loc |-> loc]
InterpolationNode(content, loc) == [type |-> "Interpolation", content |-> content, loc |-> loc]

\* SimpleExpressionNode::new: a static expression is always CanStringify
SimpleExpressionNode(content, is_static, loc, const_type) ==
    [type |-> "SimpleExpression", content |-> content, is_static |-> is_static,
     const_type |-> IF is_static THEN "CanStringify" ELSE const_type, loc |-> loc]

IsNone(x) == x.type = "None"

----------------------------------------------------------------------------
(* parser.rs: whitespace condensation *)

\* has_newline_char with its test inverted
lacks_newline_char(str) == ~\E i \in 1..Len(str) : str[i] = NewLine \/ str[i] = CarriageReturn

has_newline_char(str) == \E i \in 1..Len(str) : str[i] = NewLine \/ str[i] = CarriageReturn

RECURSIVE condense_from(_, _, _)
condense_from(str, i, prev_char_is_whitespace) ==
    IF i > Len(str) THEN <<>>
    ELSE IF is_whitespace(str[i])
         THEN (IF ~prev_char_is_whitespace THEN <<Space>> ELSE <<>>)
              \o condense_from(str, i + 1, TRUE)
         ELSE <<str[i]>> \o condense_from(str, i + 1, FALSE)

\* condense: runs of whitespace become one space
condense(str) == condense_from(str, 1, FALSE)

\* str::replace("\r\n", "\n"): non-overlapping matches, left to right
RECURSIVE replace_crlf(_)
replace_crlf(str) ==
    IF str = <<>> THEN <<>>
    ELSE IF Len(str) >= 2 /\ str[1] = CarriageReturn /\ str[2] = NewLine
         THEN <<NewLine>> \o replace_crlf(SubSeq(str, 3, Len(str)))
         ELSE <<str[1]>> \o replace_crlf(Tail(str))

\* char::is_whitespace (White_Space) on the code points below U+0800
char_is_whitespace(c) == (c >= 9 /\ c <= 13) \/ c = 32 \/ c = 133 \/ c = 160

\* str::trim_start, str::trim_end, str::trim
RECURSIVE trim_start(_)
trim_start(str) ==
    IF str # <<>> /\ char_is_whitespace(str[1]) THEN trim_start(Tail(str)) ELSE str
RECURSIVE trim_end(_)
trim_end(str) ==
    IF str # <<>> /\ char_is_whitespace(Last(str)) THEN trim_end(Front(str)) ELSE str
trim(str) == trim_end(trim_start(str))

\* one iteration of the loop of condense_whitespace over the Option vector
condense_whitespace_at(nodes, i, should_condense, in_pre) ==
    IF nodes[i].type # "Text" THEN nodes
    ELSE IF in_pre = 0
    THEN IF is_all_whitespace(nodes[i].content)
         THEN LET prev == IF i > 1 /\ ~IsNone(nodes[i - 1]) THEN nodes[i - 1].type ELSE "None"
                  next == IF i # Len(nodes) /\ ~IsNone(nodes[i + 1]) THEN nodes[i + 1].type ELSE "None"
              IN IF prev = "None" \/ next = "None"
                 THEN [nodes EXCEPT ![i] = NoneNode]
                 ELSE IF should_condense
                         /\ ( (prev = "Comment" /\ (next = "Comment" \/ next = "Element"))
                              \/ (prev = "Element"
                                  /\ (next = "Comment"
                                      \/ (next = "Element" /\ has_newline_char(nodes[i].content)))) )
                 THEN [nodes EXCEPT ![i] = NoneNode]
                 ELSE [nodes EXCEPT ![i].content = <<Space>>]
         ELSE IF should_condense
              THEN [nodes EXCEPT ![i].content = condense(nodes[i].content)]
              ELSE nodes
    ELSE [nodes EXCEPT ![i].content = replace_crlf(nodes[i].content)]

RECURSIVE condense_whitespace_loop(_, _, _, _)
condense_whitespace_loop(nodes, i, should_condense, in_pre) ==
    IF i > Len(nodes) THEN nodes
    ELSE condense_whitespace_loop(condense_whitespace_at(nodes, i, should_condense, in_pre),
                                  i + 1, should_condense, in_pre)

\* `.into_iter().flatten()`: the removed entries are dropped
flatten_nodes(nodes) == SelectSeq(nodes, LAMBDA n : ~IsNone(n))

condense_whitespace(nodes, should_condense, in_pre) ==
    flatten_nodes(condense_whitespace_loop(nodes, 1, should_condense, in_pre))

----------------------------------------------------------------------------
(* parser.rs: helpers of the tree builder *)

\* look_ahead: `i` counts from `index`, and is compared with buffer_len - 1
look_ahead_hits(index, c) ==
    {i \in 0..(Len(buffer) - index - 1) : i >= Len(buffer) - 1 \/ buffer[index + i + 1] = c}
look_ahead_ok(index, c) == index <= Len(buffer) /\ look_ahead_hits(index, c) # {}
look_ahead(index, c) == index + Min(look_ahead_hits(index, c))

\* back_track: the last `c` at or before `index`
back_track_hits(index, c) == {i \in 0..index : buffer[i + 1] = c}
back_track_ok(index, c) == index + 1 <= Len(buffer) /\ back_track_hits(index, c) # {}
back_track(index, c) == Max(back_track_hits(index, c))

is_upper_case(c) == c > 64 /\ c < 91

is_fragment_template(el) ==
    /\ el.tag = Str_template
    /\ \E i \in 1..Len(el.props) :
          /\ el.props[i].type = "Directive"
          /\ el.props[i].name \in {Str_if, Str_else, Str_else_if, Str_for, Str_slot}

is_component(el) ==
    IF el.tag \in options.custom_elements THEN FALSE
    ELSE IF el.tag = Str_component \/ is_upper_case(el.tag[1]) \/ is_core_component(el.tag)
    THEN TRUE
    ELSE IF el.tag \in options.built_in_components THEN TRUE
    ELSE IF options.has_is_native_tag /\ el.tag \notin options.native_tags THEN TRUE
    ELSE \E i \in 1..Len(el.props) :
            /\ el.props[i].type = "Attribute"
            /\ el.props[i].name = Str_is
            /\ ~IsNone(el.props[i].value)
            /\ StartsWith(el.props[i].value.content, Str_vue)

\* add_node: to the innermost open element, or to the root
add_node(t, node) ==
    IF t.panic # "none" THEN t
    ELSE IF t.stack # <<>>
    THEN [t EXCEPT !.stack[1].children = Append(@, node)]
    ELSE [t EXCEPT !.current_root_children = Append(@, node)]

\* add_node on the element on_close_tag returned
add_closed_node(r) == add_node(r.t, r.el)

\* the tokenizer calls the callback `cb` of the parser with (start, end):
\* the call is noted in `calls`, with the index the tokenizer is at
emitted(t, cb, start, end) ==
    IF t.panic # "none" THEN t
    ELSE [t EXCEPT !.calls = Append(@, [cb |-> cb, start |-> start, end |-> end,
                                        index |-> t.index])]

\* emit_error: the error handler of the options records the error
emit_error(t, code, index) ==
    IF t.panic # "none" THEN t
    ELSE IF ~slice_ok(index, index) THEN Panic(t, "slice")
    ELSE [t EXCEPT !.errors = Append(@, [code |-> code, loc |-> get_loc(t, index, index)])]

\* the children the next text is appended to
parent_children(t) ==
    IF t.stack # <<>> THEN t.stack[1].children ELSE t.current_root_children

set_parent_children(t, ch) ==
    IF t.stack # <<>> THEN [t EXCEPT !.stack[1].children = ch]
    ELSE [t EXCEPT !.current_root_children = ch]

\* every piece of text becomes a node of its own
on_text_never_merging(t, content, start, end) ==
    IF t.panic # "none" THEN t
    ELSE IF ~slice_ok(start, end) THEN Panic(t, "slice")
    ELSE set_parent_children(t, Append(parent_children(t),
                                       TextNode(content, get_loc(t, start, end))))

on_text(t, content, start, end) ==
    IF t.panic # "none" THEN t
    ELSE LET ch == parent_children(t)
         IN IF ch # <<>> /\ Last(ch).type = "Text"
            THEN IF ~slice_ok(Last(ch).loc.start.offset, end) THEN Panic(t, "slice")
                 ELSE set_parent_children(t,
                        [ch EXCEPT ![Len(ch)] =
                            [@ EXCEPT !.content = @ \o content,
                                      !.loc = set_loc_end(t, Last(ch).loc, end)]])
            ELSE IF ~slice_ok(start, end) THEN Panic(t, "slice")
                 ELSE set_parent_children(t, Append(ch, TextNode(content, get_loc(t, start, end))))

\* on_close_tag: the tag type of the closed element
element_tag_type(t, el) ==
    IF t.ctx_in_v_pre THEN el
    ELSE IF el.tag = Str_slot THEN [el EXCEPT !.tag_type = "Slot"]
    ELSE IF is_fragment_template(el) THEN [el EXCEPT !.tag_type = "Template"]
    ELSE IF is_component(el) THEN [el EXCEPT !.tag_type = "Component"]
    ELSE el

\* on_close_tag: the whitespace of the children, outside RCDATA
condense_children(t, el) ==
    IF ~t.in_rc_data
    THEN [el EXCEPT !.children =
             condense_whitespace(@, options.whitespace # "Preserve", t.in_pre)]
    ELSE el

\* on_close_tag: the element ends at `e`; v-pre ends with it
close_tag_at(t, el, e) ==
    IF ~slice_ok(el.loc.start.offset, e) THEN [t |-> Panic(t, "slice"), el |-> el]
    ELSE [t |-> IF t.ctx_in_v_pre
                THEN [t EXCEPT !.in_v_pre = FALSE, !.ctx_in_v_pre = FALSE]
                ELSE t,
          el |-> condense_children(t,
                     element_tag_type(t, [el EXCEPT !.loc = set_loc_end(t, el.loc, e)]))]

\* on_close_tag: the closed element and the tokenizer after it
on_close_tag(t, el, end, is_implied) ==
    IF t.panic # "none" THEN [t |-> t, el |-> el]
    ELSE IF is_implied /\ ~back_track_ok(end, Lt) THEN [t |-> Panic(t, "back_track"), el |-> el]
    ELSE IF ~is_implied /\ ~look_ahead_ok(end, Gt) THEN [t |-> Panic(t, "look_ahead"), el |-> el]
    ELSE close_tag_at(t, el, IF is_implied THEN back_track(end, Lt) ELSE look_ahead(end, Gt) + 1)

\* the get_namespace of the options: ParserOptions::default() answers HTML,
\* compiler-dom's parser_options() follows the HTML tree-construction rules
matches_tag_rule(tag) ==
    tag \in { <<109, 105>>, <<109, 111>>, <<109, 110>>, <<109, 115>>,
              <<109, 116, 101, 120, 116>> }

dom_get_namespace(tag, parent, root_namespace) ==
    LET ns0 == IF ~IsNone(parent) THEN parent.ns ELSE root_namespace
        has_html_encoding ==
            \E i \in 1..Len(parent.props) :
                /\ parent.props[i].type = "Attribute"
                /\ parent.props[i].name = <<101, 110, 99, 111, 100, 105, 110, 103>>
                /\ ~IsNone(parent.props[i].value)
                /\ parent.props[i].value.content \in
                      { <<116, 101, 120, 116, 47, 104, 116, 109, 108>>,
                        <<97, 112, 112, 108, 105, 99, 97, 116, 105, 111, 110, 47,
                          120, 104, 116, 109, 108, 43, 120, 109, 108>> }
        is_annotation_xml ==
            parent.tag = <<97, 110, 110, 111, 116, 97, 116, 105, 111, 110, 45, 120, 109, 108>>
        early_svg == ~IsNone(parent) /\ ns0 = "MathML" /\ is_annotation_xml /\ tag = Str_svg
        ns1 == IF IsNone(parent) THEN ns0
               ELSE IF ns0 = "MathML"
               THEN IF is_annotation_xml
                    THEN (IF has_html_encoding THEN "HTML" ELSE ns0)
                    ELSE IF matches_tag_rule(parent.tag)
                            /\ tag # <<109, 103, 108, 121, 112, 104>>
                            /\ tag # <<109, 97, 108, 105, 103, 110, 109, 97, 114, 107>>
                    THEN "HTML" ELSE ns0
               ELSE IF ns0 = "SVG"
               THEN IF parent.tag \in { <<102, 111, 114, 101, 105, 103, 110, 79, 98, 106, 101, 99, 116>>,
                                        <<100, 101, 115, 99>>, <<116, 105, 116, 108, 101>> }
                    THEN "HTML" ELSE ns0
               ELSE ns0
    IN IF early_svg THEN "SVG"
       ELSE IF ns1 = "HTML" /\ tag = Str_svg THEN "SVG"
       ELSE IF ns1 = "HTML" /\ tag = Str_math THEN "MathML"
       ELSE ns1

get_namespace(tag, parent, root_namespace) ==
    IF options.get_namespace = "dom" THEN dom_get_namespace(tag, parent, root_namespace)
    ELSE "HTML"

is_void_tag(tag) == tag \in options.void_tags
is_pre_tag(tag) == tag \in options.pre_tags

in_sfc_root(t) == options.parse_mode = "SFC" /\ Len(t.stack) = 0

\* the sequence is set and the RCDATA flag is not
enter_rc_data_without_flag(t, sequence, offset) ==
    [t EXCEPT !.in_rc_data = FALSE, !.current_sequence = sequence, !.sequence_index = offset]

enter_rc_data(t, sequence, offset) ==
    [t EXCEPT !.in_rc_data = TRUE, !.current_sequence = sequence, !.sequence_index = offset]

\* end_open_tag
end_open_tag(t, end) ==
    IF t.panic # "none" THEN t
    ELSE IF IsNone(t.current_open_tag) THEN Panic(t, "unreachable")
    ELSE LET tag == t.current_open_tag
             t0 == [t EXCEPT !.current_open_tag = NoneNode]
             t1 == IF tag.ns = "HTML" /\ is_pre_tag(tag.tag)
                   THEN [t0 EXCEPT !.in_pre = @ + 1] ELSE t0
         IN IF is_void_tag(tag.tag)
            THEN add_closed_node(on_close_tag(t1, tag, end, FALSE))
            ELSE [t1 EXCEPT !.in_xml = IF tag.ns = "SVG" \/ tag.ns = "MathML" THEN TRUE ELSE @,
                            !.stack = <<tag>> \o @]

ontext(t0, start, end) ==
    LET t == emitted(t0, "ontext", start, end) IN
    IF t.panic # "none" THEN t
    ELSE IF ~slice_ok(start, end) THEN Panic(t, "slice")
    ELSE on_text(t, get_slice(start, end), start, end)

\* create_exp: the expression is not parsed, the node is all there is
create_exp(content, is_static, loc, const_type) ==
    SimpleExpressionNode(content, is_static, loc, const_type)

RECURSIVE skip_whitespace_forward(_)
skip_whitespace_forward(i) ==
    IF is_whitespace(buffer[i + 1]) THEN skip_whitespace_forward(i + 1) ELSE i
RECURSIVE skip_whitespace_backward(_)
skip_whitespace_backward(i) ==
    IF is_whitespace(buffer[i]) THEN skip_whitespace_backward(i - 1) ELSE i

oninterpolation(t0, start, end) ==
    LET t == emitted(t0, "oninterpolation", start, end) IN
    IF t.panic # "none" THEN t
    ELSE IF t.ctx_in_v_pre
    THEN (IF ~slice_ok(start, end) THEN Panic(t, "slice")
          ELSE on_text(t, get_slice(start, end), start, end))
    ELSE LET inner_start == skip_whitespace_forward(start + 2)
             inner_end == skip_whitespace_backward(end - 2)
         IN IF ~slice_ok(inner_start, inner_end) \/ ~slice_ok(start, end) THEN Panic(t, "slice")
            ELSE add_node(t, InterpolationNode(
                     create_exp(get_slice(inner_start, inner_end), FALSE,
                                get_loc(t, inner_start, inner_end), "NotConstant"),
                     get_loc(t, start, end)))

\* the open tag with a location that has no end: get_loc(start - 1, None)
onopentagname_without_end(t, start, end) ==
    IF t.panic # "none" THEN t
    ELSE IF ~slice_ok(start, end) \/ ~slice_ok(start - 1, end) THEN Panic(t, "slice")
    ELSE [t EXCEPT !.current_open_tag =
            [type |-> "Element",
             ns |-> get_namespace(get_slice(start, end),
                                  IF t.stack # <<>> THEN t.stack[1] ELSE NoneNode,
                                  options.ns),
             tag |-> get_slice(start, end),
             tag_type |-> "Element",
             props |-> <<>>,
             children |-> <<>>,
             is_self_closing |-> FALSE,
             loc |-> get_loc(t, start - 1, start - 1)]]

onopentagname(t0, start, end) ==
    LET t == emitted(t0, "onopentagname", start, end) IN
    IF t.panic # "none" THEN t
    ELSE IF ~slice_ok(start, end) \/ ~slice_ok(start - 1, end) THEN Panic(t, "slice")
    ELSE [t EXCEPT !.current_open_tag =
            [type |-> "Element",
             ns |-> get_namespace(get_slice(start, end),
                                  IF t.stack # <<>> THEN t.stack[1] ELSE NoneNode,
                                  options.ns),
             tag |-> get_slice(start, end),
             tag_type |-> "Element",
             props |-> <<>>,
             children |-> <<>>,
             is_self_closing |-> FALSE,
             loc |-> get_loc(t, start - 1, end)]]

onopentagend(t, end) == end_open_tag(t, end)

\* a loop that closes the matched element only and drops the elements opened
\* inside it
close_elements_dropping_inner(t, j, index, end) ==
    IF t.panic # "none" THEN t
    ELSE add_closed_node(on_close_tag([t EXCEPT !.stack = SubSeq(@, index + 2, Len(@))],
                                      t.stack[index + 1], end, FALSE))

\* the loop of onclosetag that closes stack[0..=index]
RECURSIVE close_elements(_, _, _, _)
close_elements(t, j, index, end) ==
    IF j > index \/ t.panic # "none" THEN t
    ELSE close_elements(
             add_closed_node(on_close_tag([t EXCEPT !.stack = Tail(@)], t.stack[1], end, j < index)),
             j + 1, index, end)

\* onclosetag as it would be if an unmatched closing tag were reported at its name
onclosetag_reported_at_name(t, start, end) ==
    IF t.panic # "none" THEN t
    ELSE IF ~slice_ok(start, end) THEN Panic(t, "slice")
    ELSE LET name == get_slice(start, end)
             matches == {i \in 0..(Len(t.stack) - 1) :
                            ToLower(t.stack[i + 1].tag) = ToLower(name)}
         IN IF is_void_tag(name) THEN t
            ELSE IF matches # {}
            THEN LET index == Min(matches)
                     t1 == IF index > 0
                           THEN emit_error(t, "XMissingEndTag", t.stack[1].loc.start.offset)
                           ELSE t
                 IN close_elements(t1, 0, index, end)
            ELSE emit_error(t, "XInvalidEndTag", start)

onclosetag(t0, start, end) ==
    LET t == emitted(t0, "onclosetag", start, end) IN
    IF t.panic # "none" THEN t
    ELSE IF ~slice_ok(start, end) THEN Panic(t, "slice")
    ELSE LET name == get_slice(start, end)
             matches == {i \in 0..(Len(t.stack) - 1) :
                            ToLower(t.stack[i + 1].tag) = ToLower(name)}
         IN IF is_void_tag(name) THEN t
            ELSE IF matches # {}
            THEN LET index == Min(matches)
                     t1 == IF index > 0
                           THEN emit_error(t, "XMissingEndTag", t.stack[1].loc.start.offset)
                           ELSE t
                 IN close_elements(t1, 0, index, end)
            ELSE IF ~back_track_ok(start, Lt) THEN Panic(t, "back_track")
            ELSE emit_error(t, "XInvalidEndTag", back_track(start, Lt))

\* onselfclosingtag after end_open_tag: the element is closed if it is open
close_self_closing(t1, name, end) ==
    IF t1.panic = "none" /\ t1.stack # <<>> /\ t1.stack[1].tag = name
    THEN add_closed_node(on_close_tag([t1 EXCEPT !.stack = Tail(@)], t1.stack[1], end, FALSE))
    ELSE t1

onselfclosingtag(t, end) ==
    IF t.panic # "none" THEN t
    ELSE IF IsNone(t.current_open_tag) THEN Panic(t, "unreachable")
    ELSE close_self_closing(
             end_open_tag([t EXCEPT !.current_open_tag.is_self_closing = TRUE], end),
             t.current_open_tag.tag, end)

AttributeNode(name, name_loc, value, loc) ==
    [type |-> "Attribute", name |-> name, name_loc |-> name_loc, value |-> value, loc |-> loc]

DirectiveNode(name, raw_name, modifiers, loc) ==
    [type |-> "Directive", name |-> name, raw_name |-> raw_name, exp |-> NoneNode,
     arg |-> NoneNode, modifiers |-> modifiers, for_parse_result |-> NoneNode, loc |-> loc]

onattribname(t0, start, end) ==
    LET t == emitted(t0, "onattribname", start, end) IN
    IF t.panic # "none" THEN t
    ELSE IF ~slice_ok(start, end) THEN Panic(t, "slice")
    ELSE [t EXCEPT !.current_prop =
            AttributeNode(get_slice(start, end), get_loc(t, start, end), NoneNode,
                          get_loc(t, start, start))]

\* ondirname: the prop of the directive `name`, written `raw`
set_dir_prop(t1, raw, name, start, end) ==
    IF t1.panic # "none" THEN t1
    ELSE IF t1.ctx_in_v_pre \/ name = <<>>
    THEN [t1 EXCEPT !.current_prop =
            AttributeNode(raw, get_loc(t1, start, end), NoneNode,
                          get_loc(t1, start, start))]
    ELSE [t1 EXCEPT
            !.current_prop =
                DirectiveNode(name, raw,
                    IF raw = <<Dot>>
                    THEN <<SimpleExpressionNode(Str_prop, FALSE, loc_stub, "NotConstant")>>
                    ELSE <<>>,
                    get_loc(t1, start, start)),
            !.in_v_pre = IF name = Str_pre THEN TRUE ELSE @,
            !.ctx_in_v_pre = IF name = Str_pre THEN TRUE ELSE @]

\* ondirname: a directive without a name is an error outside v-pre
check_dir_name(t, raw, name, start, end) ==
    set_dir_prop(IF ~t.ctx_in_v_pre /\ name = <<>>
                 THEN emit_error(t, "XMissingDirectiveName", start)
                 ELSE t,
                 raw, name, start, end)

\* ondirname: the name behind the shorthand or behind "v-"
dir_name_of(t, raw, start, end) ==
    IF raw \notin {<<Dot>>, <<Colon>>, <<At>>, <<Number>>} /\ ~str_slice_ok(raw, 2, ByteLen(raw))
    THEN Panic(t, "slice")
    ELSE check_dir_name(t, raw,
                        IF raw = <<Dot>> \/ raw = <<Colon>> THEN Str_bind
                        ELSE IF raw = <<At>> THEN Str_on
                        ELSE IF raw = <<Number>> THEN Str_slot
                        ELSE str_slice(raw, 2, ByteLen(raw)),
                        start, end)

ondirname(t0, start, end) ==
    LET t == emitted(t0, "ondirname", start, end) IN
    IF t.panic # "none" THEN t
    ELSE IF ~slice_ok(start, end) THEN Panic(t, "slice")
    ELSE dir_name_of(t, get_slice(start, end), start, end)

ondirarg(t0, start, end) ==
    LET t == emitted(t0, "ondirarg", start, end) IN
    IF t.panic # "none" \/ start = end THEN t
    ELSE IF ~slice_ok(start, end) THEN Panic(t, "slice")
    ELSE IF IsNone(t.current_prop) THEN Panic(t, "unreachable")
    ELSE LET arg == get_slice(start, end)
         IN IF t.ctx_in_v_pre /\ ~is_v_pre(t.current_prop)
            THEN IF t.current_prop.type # "Attribute" THEN Panic(t, "unreachable")
                 ELSE [t EXCEPT !.current_prop.name = @ \o arg]
            ELSE LET is_static == arg[1] # LeftSquare
                 IN IF ~is_static /\ ~str_slice_ok(arg, 1, ByteLen(arg) - 1) THEN Panic(t, "slice")
                    ELSE IF t.current_prop.type # "Directive" THEN Panic(t, "unreachable")
                    ELSE [t EXCEPT !.current_prop.arg =
                            create_exp(IF is_static THEN arg
                                       ELSE str_slice(arg, 1, ByteLen(arg) - 1),
                                       is_static, get_loc(t, start, end),
                                       IF is_static THEN "CanStringify" ELSE "NotConstant")]

ondirmodifier(t0, start, end) ==
    LET t == emitted(t0, "ondirmodifier", start, end) IN
    IF t.panic # "none" THEN t
    ELSE IF ~slice_ok(start, end) THEN Panic(t, "slice")
    ELSE LET dir_mod == get_slice(start, end)
             prop == t.current_prop
         IN IF t.ctx_in_v_pre /\ ~IsNone(prop) /\ ~is_v_pre(prop) THEN Panic(t, "todo")
            ELSE IF ~IsNone(prop) /\ prop.type = "Directive" /\ prop.name = Str_slot
            THEN IF IsNone(prop.arg) THEN t
                 ELSE IF ~slice_ok(prop.arg.loc.start.offset, end) THEN Panic(t, "slice")
                 ELSE [t EXCEPT !.current_prop.arg =
                         [@ EXCEPT !.content = @ \o <<Dot>> \o dir_mod,
                                   !.loc = set_loc_end(t, prop.arg.loc, end)]]
            ELSE IF IsNone(prop) \/ prop.type # "Directive" THEN Panic(t, "unreachable")
            ELSE [t EXCEPT !.current_prop.modifiers =
                    Append(@, SimpleExpressionNode(dir_mod, TRUE, get_loc(t, start, end),
                                                   "NotConstant"))]

onattribdata(t0, start, end) ==
    LET t == emitted(t0, "onattribdata", start, end) IN
    IF t.panic # "none" THEN t
    ELSE IF ~slice_ok(start, end) THEN Panic(t, "slice")
    ELSE [t EXCEPT !.current_attr_value = @ \o get_slice(start, end),
                   !.current_attr_start_index = IF @ = None THEN start ELSE @,
                   !.current_attr_end_index = end]

\* onattribnameend as it would be if only plain attributes were compared
onattribnameend_attributes_only(t, end) ==
    IF t.panic # "none" THEN t
    ELSE IF IsNone(t.current_prop) THEN Panic(t, "unreachable")
    ELSE LET start == t.current_prop.loc.start.offset
         IN IF ~slice_ok(start, end) THEN Panic(t, "slice")
            ELSE IF IsNone(t.current_open_tag) THEN Panic(t, "unreachable")
            ELSE LET name == get_slice(start, end)
                     seen == [tag |-> t.current_open_tag.loc.start.offset, raw |-> name,
                              start |-> start, in_v_pre |-> t.ctx_in_v_pre]
                     t0 == [t EXCEPT !.attr_log = Append(@, seen)]
                     t1 == IF t.current_prop.type = "Directive"
                           THEN [t0 EXCEPT !.current_prop.raw_name = name] ELSE t0
                     props == t.current_open_tag.props
                     duplicate ==
                         \E i \in 1..Len(props) :
                             props[i].type = "Attribute" /\ props[i].name = name
                 IN IF duplicate THEN emit_error(t1, "DuplicateAttribute", start) ELSE t1

onattribnameend(t, end) ==
    IF t.panic # "none" THEN t
    ELSE IF IsNone(t.current_prop) THEN Panic(t, "unreachable")
    ELSE LET start == t.current_prop.loc.start.offset
         IN IF ~slice_ok(start, end) THEN Panic(t, "slice")
            ELSE IF IsNone(t.current_open_tag) THEN Panic(t, "unreachable")
            ELSE LET name == get_slice(start, end)
                     seen == [tag |-> t.current_open_tag.loc.start.offset, raw |-> name,
                              start |-> start, in_v_pre |-> t.ctx_in_v_pre]
                     t0 == [t EXCEPT !.attr_log = Append(@, seen)]
                     t1 == IF t.current_prop.type = "Directive"
                           THEN [t0 EXCEPT !.current_prop.raw_name = name] ELSE t0
                     props == t.current_open_tag.props
                     duplicate ==
                         \E i \in 1..Len(props) :
                             IF props[i].type = "Attribute" THEN props[i].name = name
                             ELSE props[i].raw_name = name
                 IN IF duplicate THEN emit_error(t1, "DuplicateAttribute", start) ELSE t1

----------------------------------------------------------------------------
(* utils.rs: match_for_alias, and parser.rs: parse_for_expression *)

\* str::find: the char index of the first occurrence of pat in str, or None
find_str(str, pat) ==
    LET hits == {i \in 0..(Len(str) - Len(pat)) : SubSeq(str, i + 1, i + Len(pat)) = pat}
    IN IF hits = {} THEN None ELSE Min(hits)

RECURSIVE match_for_alias_loop(_, _, _, _)

\* find: `left` and `right` are the text around the keyword found, left_text1 the
\* text to the left of it since the start; the keyword must stand between whitespace
match_around(in_text, in_left, of_text, of_left, use_in, left, right, left_text1) ==
    IF left # <<>> /\ char_is_whitespace(Last(left))
       /\ right # <<>> /\ char_is_whitespace(right[1])
    THEN [type |-> "Some", lhs |-> trim_end(left_text1), rhs |-> trim_start(right)]
    ELSE IF use_in
         THEN match_for_alias_loop(right, left_text1, of_text, of_left)
         ELSE match_for_alias_loop(in_text, in_left, right, left_text1)

\* find: the text is split at the keyword found at char index idx
match_split(in_text, in_left, of_text, of_left, use_in, text, left_text, pat, idx) ==
    match_around(in_text, in_left, of_text, of_left, use_in,
                 SubSeq(text, 1, idx), SubSeq(text, idx + 3, Len(text)),
                 (IF left_text # <<>> THEN left_text \o pat ELSE left_text)
                     \o SubSeq(text, 1, idx))

\* the earlier of the next " in " and the next " of " is tried first
match_next(in_text, in_left, of_text, of_left, in_index, of_index, use_in) ==
    IF use_in
    THEN match_split(in_text, in_left, of_text, of_left, use_in,
                     in_text, in_left, <<105, 110>>, in_index)
    ELSE match_split(in_text, in_left, of_text, of_left, use_in,
                     of_text, of_left, <<111, 102>>, of_index)

match_found(in_text, in_left, of_text, of_left, in_index, of_index) ==
    IF in_index = None /\ of_index = None THEN NoneNode
    ELSE match_next(in_text, in_left, of_text, of_left, in_index, of_index,
                    IF in_index # None /\ of_index # None
                    THEN ByteLen(in_left) + ByteOffset(in_text, in_index)
                            <= ByteLen(of_left) + ByteOffset(of_text, of_index)
                    ELSE in_index # None)

match_for_alias_loop(in_text, in_left, of_text, of_left) ==
    match_found(in_text, in_left, of_text, of_left,
                find_str(in_text, <<105, 110>>), find_str(of_text, <<111, 102>>))

match_for_alias(text) == match_for_alias_loop(text, <<>>, text, <<>>)

\* the value alias of parse_for_expression: lhs trimmed, one paren stripped at each end
value_content_of(lhs) ==
    LET c0 == trim(lhs)
        c1 == IF c0 # <<>> /\ c0[1] = 40 THEN Tail(c0) ELSE c0
    IN IF c1 # <<>> /\ Last(c1) = 41 THEN Front(c1) ELSE c1

create_alias_expression_ok(loc, content, offset) ==
    slice_ok(loc.start.offset + offset, loc.start.offset + offset + ByteLen(content))

create_alias_expression(t, loc, content, offset) ==
    create_exp(content, FALSE,
               get_loc(t, loc.start.offset + offset, loc.start.offset + offset + ByteLen(content)),
               "NotConstant")

\* parse_for_expression after the match: the source and value aliases
parse_for_aliases(t, input, in_match, value_content) ==
    LET offset == ByteOffset(input.content, find_str(input.content, in_match.rhs))
        trimmed_offset == ByteOffset(in_match.lhs, find_str(in_match.lhs, value_content))
        ok == /\ create_alias_expression_ok(input.loc, trim(in_match.rhs), offset)
              /\ (value_content # <<>> =>
                    create_alias_expression_ok(input.loc, value_content, trimmed_offset))
    IN IF ~ok THEN [ok |-> FALSE, result |-> NoneNode]
       ELSE [ok |-> TRUE,
             result |->
                [type |-> "ForParseResult",
                 source |-> create_alias_expression(t, input.loc, trim(in_match.rhs), offset),
                 value |-> IF value_content # <<>>
                           THEN create_alias_expression(t, input.loc, value_content,
                                                        trimmed_offset)
                           ELSE NoneNode,
                 key |-> NoneNode,
                 index |-> NoneNode,
                 finalized |-> FALSE]]

\* parse_for_expression on the result of match_for_alias
parse_for_matched(t, input, in_match) ==
    IF IsNone(in_match) THEN [ok |-> TRUE, result |-> NoneNode]
    ELSE parse_for_aliases(t, input, in_match, value_content_of(in_match.lhs))

\* parse_for_expression: [ok, result]; only `source` and `value` are ever set
parse_for_expression(t, input) == parse_for_matched(t, input, match_for_alias(input.content))

----------------------------------------------------------------------------
(* parser.rs: the remaining callbacks *)

\* the Attribute branch of onattribend: the value node, and RCDATA for
\* <template lang="..."> at the root of an SFC
set_attr_value_node(t2, value, s0, e0) ==
    IF ~slice_ok(s0, e0) THEN Panic(t2, "slice")
    ELSE IF in_sfc_root(t2) /\ t2.current_open_tag.tag = Str_template
            /\ t2.current_prop.name = Str_lang
            /\ value # <<>> /\ value # Str_html
    THEN enter_rc_data([t2 EXCEPT !.current_prop.value = TextNode(value, get_loc(t2, s0, e0))],
                       Str_lt_slash_template, 0)
    ELSE [t2 EXCEPT !.current_prop.value = TextNode(value, get_loc(t2, s0, e0))]

\* the Attribute branch of onattribend: the value spans the quotes
locate_attr_value(t2, value, quote, start, end) ==
    IF t2.panic # "none" THEN t2
    ELSE IF start = None \/ end = None THEN Panic(t2, "unreachable")
    ELSE set_attr_value_node(t2, value,
                             IF quote = "Unquoted" THEN start ELSE start - 1,
                             IF quote = "Unquoted" THEN end ELSE end + 1)

\* the Attribute branch of onattribend: an unquoted value is reported
set_attr_value(t, value, quote, end) ==
    locate_attr_value(
        IF quote = "Unquoted" /\ value # <<>>
        THEN emit_error([t EXCEPT !.current_attr_value = value], "MissingAttributeValue", end)
        ELSE [t EXCEPT !.current_attr_value = value],
        value, quote, t.current_attr_start_index, t.current_attr_end_index)

\* the Attribute branch of onattribend (quote is not NoValue)
onattribend_attribute(t, quote, end) ==
    set_attr_value(t,
                   IF t.current_prop.name = Str_class
                   THEN trim(condense(t.current_attr_value))
                   ELSE t.current_attr_value,
                   quote, end)

\* the v-for branch of onattribend: r is the result of parse_for_expression
set_for_parse_result(t, exp, r) ==
    IF ~r.ok THEN Panic(t, "slice")
    ELSE [t EXCEPT !.current_prop.exp = exp, !.current_prop.for_parse_result = r.result]

\* the directive branch of onattribend, given the expression of the value
set_directive_exp(t, exp) ==
    IF t.current_prop.name = Str_for
    THEN set_for_parse_result(t, exp, parse_for_expression(t, exp))
    ELSE [t EXCEPT !.current_prop.exp = exp]

\* the directive branch of onattribend (quote is not NoValue)
onattribend_directive(t, end) ==
    IF t.current_attr_start_index = None \/ t.current_attr_end_index = None
    THEN Panic(t, "unreachable")
    ELSE IF ~slice_ok(t.current_attr_start_index, t.current_attr_end_index) THEN Panic(t, "slice")
    ELSE set_directive_exp(t, create_exp(t.current_attr_value, FALSE,
                                         get_loc(t, t.current_attr_start_index,
                                                 t.current_attr_end_index),
                                         "NotConstant"))

\* the end of onattribend: the value state is cleared
reset_attr_value(u) ==
    IF u.panic # "none" THEN u
    ELSE [u EXCEPT !.current_attr_value = <<>>,
                   !.current_attr_start_index = None,
                   !.current_attr_end_index = None]

\* the end of onattribend: the prop is pushed unless it is v-pre
push_current_prop(t2) ==
    IF t2.panic # "none" THEN t2
    ELSE IF t2.current_prop.type # "Directive" \/ t2.current_prop.name # Str_pre
    THEN reset_attr_value([t2 EXCEPT !.current_open_tag.props = Append(@, t2.current_prop)])
    ELSE reset_attr_value(t2)

\* onattribend after the end of the prop's location is set
set_prop_value(t1, quote, end) ==
    IF quote = "NoValue" THEN t1
    ELSE IF t1.current_prop.type = "Attribute"
    THEN onattribend_attribute(t1, quote, end)
    ELSE onattribend_directive(t1, end)

onattribend(t, quote, end) ==
    IF t.panic # "none" THEN t
    ELSE IF IsNone(t.current_open_tag) \/ IsNone(t.current_prop) THEN reset_attr_value(t)
    ELSE IF ~slice_ok(t.current_prop.loc.start.offset, end) THEN Panic(t, "slice")
    ELSE push_current_prop(
             set_prop_value([t EXCEPT !.current_prop.loc = set_loc_end(t, @, end)], quote, end))

oncomment(t0, start, end) ==
    LET t == emitted(t0, "oncomment", start, end) IN
    IF t.panic # "none" \/ ~options.comments THEN t
    ELSE IF ~slice_ok(start, end) \/ ~slice_ok(start - 4, end + 3) THEN Panic(t, "slice")
    ELSE add_node(t, CommentNode(get_slice(start, end), get_loc(t, start - 4, end + 3)))

oncdata(t0, start, end) ==
    LET t == emitted(t0, "oncdata", start, end) IN
    IF t.panic # "none" THEN t
    ELSE IF t.stack # <<>> /\ t.stack[1].ns # "HTML"
    THEN (IF ~slice_ok(start, end) THEN Panic(t, "slice")
          ELSE on_text(t, get_slice(start, end), start, end))
    ELSE emit_error(t, "CdataInHtmlContent", start - 9)

onprocessinginstruction(t0, start, end) ==
    LET t == emitted(t0, "onprocessinginstruction", start, end) IN
    IF t.panic # "none" THEN t
    ELSE LET ns == IF t.stack # <<>> THEN t.stack[1].ns ELSE options.ns
         IN IF ns = "HTML"
            THEN emit_error(t, "UnexpectedQuestionMarkInsteadOfTagName", start - 1)
            ELSE t

\* the states in which onend reports EOF_IN_TAG
EOFInTagStates ==
    {"InTagName", "InSelfClosingTag", "InClosingTagName", "BeforeAttrName", "InAttrName",
     "InDirName", "InDirArg", "InDirDynamicArg", "InDirModifier", "AfterAttrName",
     "BeforeAttrValue", "InAttrValueDq", "InAttrValueSq", "InAttrValueNq"}

\* the loop of onend over the drained stack
RECURSIVE onend_close(_, _, _)
onend_close(t, items, end) ==
    IF items = <<>> \/ t.panic # "none" THEN t
    ELSE onend_close(emit_error(add_closed_node(on_close_tag(t, items[1], end - 1, FALSE)),
                                "XMissingEndTag", items[1].loc.start.offset),
                     Tail(items), end)

onend(t) ==
    IF t.panic # "none" THEN t
    ELSE LET end == ByteLen(buffer)
             t0 == [emitted(t, "onend", Len(buffer), Len(buffer)) EXCEPT !.eof_stack = t.stack]
             t1 == IF (options.dev \/ ~options.browser) /\ t.state # "Text"
                   THEN IF t.state \in {"BeforeTagName", "BeforeClosingTagName"}
                        THEN emit_error(t0, "EOFBeforeTagName", end)
                        ELSE IF t.state \in {"Interpolation", "InterpolationClose"}
                        THEN (IF t.section_start = None THEN Panic(t0, "unreachable")
                              ELSE emit_error(t0, "XMissingInterpolationEnd", t.section_start))
                        ELSE IF t.state = "InCommentLike"
                        THEN (IF t.current_sequence = Seq_cdata_end
                              THEN emit_error(t0, "EOFInCdata", end)
                              ELSE emit_error(t0, "EOFInComment", end))
                        ELSE IF t.state \in EOFInTagStates
                        THEN emit_error(t0, "EOFInTag", end)
                        ELSE t0
                   ELSE t0
         IN onend_close([t1 EXCEPT !.stack = <<>>], t1.stack, end)

----------------------------------------------------------------------------
(* tokenizer.rs: the state handlers.  Each takes the tokenizer and the       *)
(* current character and returns the tokenizer after the handler.            *)

delimiter_open == <<123, 123>>
delimiter_close == <<125, 125>>

\* peek: buffer[index + 1], out of bounds at the last character
peek_ok(t) == t.index + 1 < Len(buffer)
peek(t) == buffer[t.index + 2]

onerr(t, code, index) == emit_error(t, code, index)

\* start_entity: entity decoding is not implemented (todo!())
start_entity(t) ==
    IF ~options.browser
    THEN Panic([t EXCEPT !.base_state = t.state, !.state = "InEntity", !.entity_start = t.index],
               "todo")
    ELSE t

state_in_entity(t) == IF ~options.browser THEN Panic(t, "todo") ELSE t

\* fast_forward_to as it would be if the characters skipped were not looked at
RECURSIVE fast_forward_to_unrecorded(_, _)
fast_forward_to_unrecorded(t, c) ==
    LET index == t.index + 1
    IN IF index >= Len(buffer)
       THEN [found |-> FALSE, t |-> [t EXCEPT !.index = Len(buffer) - 1]]
       ELSE IF buffer[index + 1] = c THEN [found |-> TRUE, t |-> [t EXCEPT !.index = index]]
       ELSE fast_forward_to_unrecorded([t EXCEPT !.index = index], c)

\* fast_forward_to: [found, t]; the newlines skipped over are recorded
RECURSIVE fast_forward_to(_, _)
fast_forward_to(t, c) ==
    LET index == t.index + 1
    IN IF index >= Len(buffer)
       THEN [found |-> FALSE, t |-> [t EXCEPT !.index = Len(buffer) - 1]]
       ELSE LET cc == buffer[index + 1]
                t1 == [t EXCEPT !.index = index,
                                !.newlines = IF cc = NewLine THEN Append(@, index) ELSE @]
            IN IF cc = c THEN [found |-> TRUE, t |-> t1] ELSE fast_forward_to(t1, c)

\* a call of fast_forward_to by a state handler: the index it starts from and
\* the index it leaves are noted in `forwards`
fast_forward(t, c) ==
    [found |-> fast_forward_to(t, c).found,
     t |-> [fast_forward_to(t, c).t
               EXCEPT !.forwards = Append(@, [from |-> t.index,
                                              to |-> fast_forward_to(t, c).t.index])]]

state_after_closing_tag_name(t, c) ==
    IF c = Gt THEN [t EXCEPT !.state = "Text", !.section_start = t.index + 1] ELSE t

state_in_closing_tag_name(t, c) ==
    IF c = Gt \/ is_whitespace(c)
    THEN IF t.section_start = None THEN Panic(t, "unreachable")
         ELSE state_after_closing_tag_name(
                  [onclosetag(t, t.section_start, t.index)
                      EXCEPT !.section_start = None, !.state = "AfterClosingTagName"], c)
    ELSE t

RECURSIVE state_text(_, _)
RECURSIVE state_interpolation_open(_, _)
RECURSIVE state_in_rc_data(_, _)

state_text(t, c) ==
    IF c = Lt
    THEN IF t.section_start = None THEN Panic(t, "unreachable")
         ELSE [(IF t.index > t.section_start THEN ontext(t, t.section_start, t.index) ELSE t)
                  EXCEPT !.state = "BeforeTagName", !.section_start = t.index]
    ELSE IF ~options.browser /\ c = Amp THEN start_entity(t)
    ELSE IF ~t.in_v_pre /\ c = delimiter_open[1]
    THEN state_interpolation_open([t EXCEPT !.state = "InterpolationOpen", !.delimiter_index = 0], c)
    ELSE t

state_interpolation_open(t, c) ==
    IF t.delimiter_index = None THEN Panic(t, "unreachable")
    ELSE IF c = delimiter_open[t.delimiter_index + 1]
    THEN IF t.delimiter_index = Len(delimiter_open) - 1
         THEN LET start == t.index + 1 - Len(delimiter_open)
              IN IF t.section_start = None THEN Panic(t, "unreachable")
                 ELSE [(IF start > t.section_start THEN ontext(t, t.section_start, start) ELSE t)
                          EXCEPT !.state = "Interpolation", !.section_start = start]
         ELSE [t EXCEPT !.delimiter_index = @ + 1]
    ELSE IF t.in_rc_data THEN state_in_rc_data([t EXCEPT !.state = "InRCDATA"], c)
    ELSE state_text([t EXCEPT !.state = "Text"], c)

state_in_rc_data(t, c) ==
    IF t.sequence_index = Len(t.current_sequence) /\ (c = Gt \/ is_whitespace(c))
    THEN LET end_of_text == t.index - Len(t.current_sequence)
         IN IF t.section_start = None THEN Panic(t, "unreachable")
            ELSE LET t1 == IF t.section_start < end_of_text
                           THEN [ontext([t EXCEPT !.index = end_of_text],
                                        t.section_start, end_of_text)
                                    EXCEPT !.index = t.index]
                           ELSE t
                 IN [state_in_closing_tag_name([t1 EXCEPT !.section_start = end_of_text + 2], c)
                        EXCEPT !.in_rc_data = FALSE]
    ELSE LET t0 == IF t.sequence_index = Len(t.current_sequence)
                   THEN [t EXCEPT !.sequence_index = 0] ELSE t
         IN IF t0.sequence_index >= Len(t0.current_sequence) THEN Panic(t0, "index")
            ELSE IF Or20(c) = t0.current_sequence[t0.sequence_index + 1]
            THEN [t0 EXCEPT !.sequence_index = @ + 1]
            ELSE IF t0.sequence_index = 0
            THEN IF t0.current_sequence = Seq_title_end
                    \/ (t0.current_sequence = Seq_textarea_end /\ ~in_sfc_root(t0))
                 THEN IF ~options.browser /\ c = Amp THEN start_entity(t0)
                      ELSE IF ~t0.in_v_pre /\ c = delimiter_open[1]
                      THEN state_interpolation_open(
                               [t0 EXCEPT !.state = "InterpolationOpen", !.delimiter_index = 0], c)
                      ELSE t0
                 ELSE LET r == fast_forward(t0, Lt)
                      IN IF r.found THEN [r.t EXCEPT !.sequence_index = 1] ELSE r.t
            ELSE [t0 EXCEPT !.sequence_index = IF c = Lt THEN 1 ELSE 0]

RECURSIVE state_interpolation(_, _)
RECURSIVE state_interpolation_close(_, _)

state_interpolation(t, c) ==
    IF c = delimiter_close[1]
    THEN state_interpolation_close(
             [t EXCEPT !.state = "InterpolationClose", !.delimiter_index = 0], c)
    ELSE t

state_interpolation_close(t, c) ==
    IF t.delimiter_index = None THEN Panic(t, "unreachable")
    ELSE IF c = delimiter_close[t.delimiter_index + 1]
    THEN IF t.delimiter_index = Len(delimiter_close) - 1
         THEN IF t.section_start = None THEN Panic(t, "unreachable")
              ELSE [oninterpolation(t, t.section_start, t.index + 1)
                       EXCEPT !.state = IF t.in_rc_data THEN "InRCDATA" ELSE "Text",
                              !.section_start = t.index + 1]
         ELSE [t EXCEPT !.delimiter_index = @ + 1]
    ELSE state_interpolation([t EXCEPT !.state = "Interpolation"], c)

DevOrNotBrowser == options.dev \/ ~options.browser

handle_attr_start(t, c) ==
    IF c = LowerV /\ ~peek_ok(t) THEN Panic(t, "index")
    ELSE IF c = LowerV /\ peek(t) = Dash
    THEN [t EXCEPT !.state = "InDirName", !.section_start = t.index]
    ELSE IF c = Dot \/ c = Colon \/ c = At \/ c = Number
    THEN [ondirname(t, t.index, t.index + 1)
             EXCEPT !.state = "InDirArg", !.section_start = t.index + 1]
    ELSE [t EXCEPT !.state = "InAttrName", !.section_start = t.index]

\* state_before_attr_name after onopentagend: RCDATA or text follows the tag
after_open_tag_end(t1, index) ==
    [t1 EXCEPT !.state = IF t1.in_rc_data THEN "InRCDATA" ELSE "Text",
               !.section_start = index + 1]

state_before_attr_name(t, c) ==
    IF c = Gt THEN after_open_tag_end(onopentagend(t, t.index), t.index)
    ELSE IF c = Slash
    THEN LET t1 == [t EXCEPT !.state = "InSelfClosingTag"]
         IN IF DevOrNotBrowser
            THEN (IF ~peek_ok(t) THEN Panic(t1, "index")
                  ELSE IF peek(t) # Gt THEN onerr(t1, "UnexpectedSolidusInTag", t.index)
                  ELSE t1)
            ELSE t1
    ELSE IF c = Lt /\ ~peek_ok(t) THEN Panic(t, "index")
    ELSE IF c = Lt /\ peek(t) = Slash
    THEN [onopentagend(t, t.index) EXCEPT !.state = "BeforeTagName", !.section_start = t.index]
    ELSE IF ~is_whitespace(c)
    THEN handle_attr_start(
             IF DevOrNotBrowser /\ c = Eq
             THEN onerr(t, "UnexpectedEqualsSignBeforeAttributeName", t.index)
             ELSE t, c)
    ELSE t

state_in_self_closing_tag(t, c) ==
    IF c = Gt
    THEN [onselfclosingtag(t, t.index)
             EXCEPT !.state = "Text", !.section_start = t.index + 1, !.in_rc_data = FALSE]
    ELSE IF ~is_whitespace(c) THEN state_before_attr_name([t EXCEPT !.state = "BeforeAttrName"], c)
    ELSE t

state_after_attr_name(t, c) ==
    IF c = Eq THEN [t EXCEPT !.state = "BeforeAttrValue"]
    ELSE IF c = Slash \/ c = Gt
    THEN IF t.section_start = None THEN Panic(t, "unreachable")
         ELSE state_before_attr_name(
                  [onattribend(t, "NoValue", t.section_start)
                      EXCEPT !.section_start = None, !.state = "BeforeAttrName"], c)
    ELSE IF ~is_whitespace(c)
    THEN IF t.section_start = None THEN Panic(t, "unreachable")
         ELSE handle_attr_start(onattribend(t, "NoValue", t.section_start), c)
    ELSE t

handle_attr_name_end(t, c) ==
    state_after_attr_name(
        onattribnameend([t EXCEPT !.section_start = t.index, !.state = "AfterAttrName"],
                        t.index), c)

state_in_attr_name(t, c) ==
    IF c = Eq \/ is_end_of_tag_section(c)
    THEN IF t.section_start = None THEN Panic(t, "unreachable")
         ELSE handle_attr_name_end(onattribname(t, t.section_start, t.index), c)
    ELSE IF DevOrNotBrowser /\ (c = DoubleQuote \/ c = SingleQuote \/ c = Lt)
    THEN onerr(t, "UnexpectedCharacterInAttributeName", t.index)
    ELSE t

state_in_dir_name(t, c) ==
    IF t.section_start = None THEN Panic(t, "unreachable")
    ELSE IF c = Eq \/ is_end_of_tag_section(c)
    THEN handle_attr_name_end(ondirname(t, t.section_start, t.index), c)
    ELSE IF c = Colon
    THEN [ondirname(t, t.section_start, t.index)
             EXCEPT !.state = "InDirArg", !.section_start = t.index + 1]
    ELSE IF c = Dot
    THEN [ondirname(t, t.section_start, t.index)
             EXCEPT !.state = "InDirModifier", !.section_start = t.index + 1]
    ELSE t

state_in_dir_arg(t, c) ==
    IF c = Eq \/ is_end_of_tag_section(c)
    THEN IF t.section_start = None THEN Panic(t, "unreachable")
         ELSE handle_attr_name_end(ondirarg(t, t.section_start, t.index), c)
    ELSE IF c = LeftSquare THEN [t EXCEPT !.state = "InDirDynamicArg"]
    ELSE IF c = Dot
    THEN IF t.section_start = None THEN Panic(t, "unreachable")
         ELSE [ondirarg(t, t.section_start, t.index)
                  EXCEPT !.state = "InDirModifier", !.section_start = t.index + 1]
    ELSE t

\* onerr under `__dev__ || !__browser__`
onerr_in_dev(t, code, index) == IF DevOrNotBrowser THEN onerr(t, code, index) ELSE t

state_in_dynamic_dir_arg(t, c) ==
    IF c = RightSquare THEN [t EXCEPT !.state = "InDirArg"]
    ELSE IF c = Eq \/ is_end_of_tag_section(c)
    THEN IF t.section_start = None THEN Panic(t, "unreachable")
         ELSE onerr_in_dev(handle_attr_name_end(ondirarg(t, t.section_start, t.index + 1), c),
                           "XMissingDynamicDirectiveArgumentEnd", t.index)
    ELSE t

state_in_dir_modifier(t, c) ==
    IF c = Eq \/ is_end_of_tag_section(c)
    THEN IF t.section_start = None THEN Panic(t, "unreachable")
         ELSE handle_attr_name_end(ondirmodifier(t, t.section_start, t.index), c)
    ELSE IF c = Dot
    THEN IF t.section_start = None THEN Panic(t, "unreachable")
         ELSE [ondirmodifier(t, t.section_start, t.index) EXCEPT !.section_start = t.index + 1]
    ELSE t

\* handle_in_attr_value once the closing quote is looked for: r is [found, t]
end_attr_value(r, c, quote) ==
    IF r.found
    THEN IF r.t.section_start = None THEN Panic(r.t, "unreachable")
         ELSE [onattribend(
                   [onattribdata(r.t, r.t.section_start, r.t.index)
                       EXCEPT !.section_start = None],
                   IF quote = DoubleQuote THEN "Double" ELSE "Single", r.t.index + 1)
                  EXCEPT !.state = "BeforeAttrName"]
    ELSE IF ~options.browser /\ c = Amp THEN start_entity(r.t)
    ELSE r.t

handle_in_attr_value(t, c, quote) ==
    end_attr_value(IF c = quote THEN [found |-> TRUE, t |-> t]
                   ELSE IF options.browser THEN fast_forward(t, quote)
                   ELSE [found |-> FALSE, t |-> t],
                   c, quote)

state_in_attr_value_double_quotes(t, c) == handle_in_attr_value(t, c, DoubleQuote)
state_in_attr_value_single_quotes(t, c) == handle_in_attr_value(t, c, SingleQuote)

state_in_attr_value_no_quotes(t, c) ==
    IF is_whitespace(c) \/ c = Gt
    THEN IF t.section_start = None THEN Panic(t, "unreachable")
         ELSE state_before_attr_name(
                  [onattribend(
                       [onattribdata(t, t.section_start, t.index) EXCEPT !.section_start = None],
                       "Unquoted", t.index)
                      EXCEPT !.state = "BeforeAttrName"], c)
    ELSE IF (DevOrNotBrowser /\ c = DoubleQuote)
            \/ c = SingleQuote \/ c = Lt \/ c = Eq \/ c = GraveAccent
    THEN onerr(t, "UnexpectedCharacterInUnquotedAttributeValue", t.index)
    ELSE IF ~options.browser /\ c = Amp THEN start_entity(t)
    ELSE t

state_before_attr_value(t, c) ==
    IF c = DoubleQuote THEN [t EXCEPT !.state = "InAttrValueDq", !.section_start = t.index + 1]
    ELSE IF c = SingleQuote THEN [t EXCEPT !.state = "InAttrValueSq", !.section_start = t.index + 1]
    ELSE IF ~is_whitespace(c)
    THEN state_in_attr_value_no_quotes(
             [t EXCEPT !.section_start = t.index, !.state = "InAttrValueNq"], c)
    ELSE t

handle_tag_name(t, c) ==
    IF t.section_start = None THEN Panic(t, "unreachable")
    ELSE state_before_attr_name(
             [onopentagname(t, t.section_start, t.index)
                 EXCEPT !.section_start = None, !.state = "BeforeAttrName"], c)

state_in_tag_name(t, c) ==
    IF is_end_of_tag_section(c) THEN handle_tag_name(t, c) ELSE t

state_in_sfc_root_tag_name(t, c) ==
    IF is_end_of_tag_section(c)
    THEN IF t.section_start = None THEN Panic(t, "unreachable")
         ELSE IF ~slice_ok(t.section_start, t.index) THEN Panic(t, "slice")
         ELSE LET tag == get_slice(t.section_start, t.index)
              IN handle_tag_name(IF tag # Str_template
                                 THEN enter_rc_data(t, Str_lt_slash \o tag, 0)
                                 ELSE t, c)
    ELSE t

start_special(t, sequence, offset) ==
    [enter_rc_data(t, sequence, offset) EXCEPT !.state = "SpecialStartSequence"]

state_special_start_sequence(t, c) ==
    LET is_end == t.sequence_index = Len(t.current_sequence)
        is_match == IF is_end THEN is_end_of_tag_section(c)
                    ELSE Or20(c) = t.current_sequence[t.sequence_index + 1]
    IN IF is_match /\ ~is_end THEN [t EXCEPT !.sequence_index = @ + 1]
       ELSE state_in_tag_name(
                [t EXCEPT !.in_rc_data = IF ~is_match THEN FALSE ELSE @,
                          !.sequence_index = 0, !.state = "InTagName"], c)

state_before_special_s(t, c) ==
    IF c = Seq_script_end[4] THEN start_special(t, Seq_script_end, 4)
    ELSE IF c = Seq_style_end[4] THEN start_special(t, Seq_style_end, 4)
    ELSE state_in_tag_name([t EXCEPT !.state = "InTagName"], c)

state_before_special_t(t, c) ==
    IF c = Seq_title_end[4] THEN start_special(t, Seq_title_end, 4)
    ELSE IF c = Seq_textarea_end[4] THEN start_special(t, Seq_textarea_end, 4)
    ELSE state_in_tag_name([t EXCEPT !.state = "InTagName"], c)

state_before_tag_name(t, c) ==
    IF c = ExclamationMark
    THEN [t EXCEPT !.state = "BeforeDeclaration", !.section_start = t.index + 1]
    ELSE IF c = Questionmark
    THEN [t EXCEPT !.state = "InProcessingInstruction", !.section_start = t.index + 1]
    ELSE IF is_tag_start_char(c)
    THEN [t EXCEPT !.section_start = t.index,
                   !.state = IF options.parse_mode = "BASE" THEN "InTagName"
                             ELSE IF in_sfc_root(t) THEN "InSFCRootTagName"
                             ELSE IF ~t.in_xml
                             THEN (IF c = LowerT THEN "BeforeSpecialT"
                                   ELSE IF c = LowerS THEN "BeforeSpecialS"
                                   ELSE "InTagName")
                             ELSE "InTagName"]
    ELSE IF c = Slash THEN [t EXCEPT !.state = "BeforeClosingTagName"]
    ELSE state_text([t EXCEPT !.state = "Text"], c)

state_before_closing_tag_name(t, c) ==
    IF is_whitespace(c) THEN t
    ELSE IF c = Gt
    THEN [(IF DevOrNotBrowser THEN onerr(t, "MissingEndTagName", t.index) ELSE t)
             EXCEPT !.state = "Text", !.section_start = t.index + 1]
    ELSE [t EXCEPT !.state = IF is_tag_start_char(c) THEN "InClosingTagName"
                             ELSE "InSpecialComment",
                   !.section_start = t.index]

state_in_declaration(t, c) ==
    LET r == IF c = Gt THEN [found |-> TRUE, t |-> t] ELSE fast_forward(t, Gt)
    IN IF r.found THEN [r.t EXCEPT !.state = "Text", !.section_start = r.t.index + 1]
       ELSE r.t

state_cdata_sequence(t, c) ==
    IF t.sequence_index >= Len(Seq_cdata) THEN Panic(t, "index")
    ELSE IF c = Seq_cdata[t.sequence_index + 1]
    THEN IF t.sequence_index + 1 = Len(Seq_cdata)
         THEN [t EXCEPT !.state = "InCommentLike", !.current_sequence = Seq_cdata_end,
                        !.sequence_index = 0, !.section_start = t.index + 1]
         ELSE [t EXCEPT !.sequence_index = @ + 1]
    ELSE state_in_declaration([t EXCEPT !.sequence_index = 0, !.state = "InDeclaration"], c)

state_in_comment_like(t, c) ==
    IF t.sequence_index >= Len(t.current_sequence) THEN Panic(t, "index")
    ELSE IF c = t.current_sequence[t.sequence_index + 1]
    THEN IF t.sequence_index + 1 = Len(t.current_sequence)
         THEN IF t.section_start = None THEN Panic(t, "unreachable")
              ELSE IF t.index < 2 THEN Panic(t, "overflow")
              ELSE [(IF t.current_sequence = Seq_cdata_end
                     THEN oncdata(t, t.section_start, t.index - 2)
                     ELSE oncomment(t, t.section_start, t.index - 2))
                       EXCEPT !.sequence_index = 0, !.section_start = t.index + 1,
                              !.state = "Text"]
         ELSE [t EXCEPT !.sequence_index = @ + 1]
    ELSE IF t.sequence_index = 0
    THEN LET r == fast_forward(t, t.current_sequence[1])
         IN IF r.found THEN [r.t EXCEPT !.sequence_index = 1] ELSE r.t
    ELSE IF c # t.current_sequence[t.sequence_index] THEN [t EXCEPT !.sequence_index = 0]
    ELSE t

state_before_declaration(t, c) ==
    IF c = LeftSquare THEN [t EXCEPT !.state = "CDATASequence", !.sequence_index = 0]
    ELSE [t EXCEPT !.state = IF c = Dash THEN "BeforeComment" ELSE "InDeclaration"]

state_in_processing_instruction(t, c) ==
    LET r == IF c = Gt THEN [found |-> TRUE, t |-> t] ELSE fast_forward(t, Gt)
    IN IF r.found
       THEN IF r.t.section_start = None THEN Panic(r.t, "unreachable")
            ELSE [onprocessinginstruction(r.t, r.t.section_start, r.t.index)
                     EXCEPT !.state = "Text", !.section_start = r.t.index + 1]
       ELSE r.t

state_before_comment(t, c) ==
    IF c = Dash
    THEN [t EXCEPT !.state = "InCommentLike", !.current_sequence = Seq_comment_end,
                   !.sequence_index = 2, !.section_start = t.index + 1]
    ELSE [t EXCEPT !.state = "InDeclaration"]

state_in_special_comment(t, c) ==
    LET r == IF c = Gt THEN [found |-> TRUE, t |-> t] ELSE fast_forward(t, Gt)
    IN IF r.found
       THEN IF r.t.section_start = None THEN Panic(r.t, "unreachable")
            ELSE [oncomment(r.t, r.t.section_start, r.t.index)
                     EXCEPT !.state = "Text", !.section_start = r.t.index + 1]
       ELSE r.t

----------------------------------------------------------------------------
(* tokenizer.rs: parse, cleanup, finish *)

\* the `match self.state` of the loop of parse
dispatch(t, c) ==
    CASE t.state = "Text" -> state_text(t, c)
      [] t.state = "InterpolationOpen" -> state_interpolation_open(t, c)
      [] t.state = "Interpolation" -> state_interpolation(t, c)
      [] t.state = "InterpolationClose" -> state_interpolation_close(t, c)
      [] t.state = "SpecialStartSequence" -> state_special_start_sequence(t, c)
      [] t.state = "InRCDATA" -> state_in_rc_data(t, c)
      [] t.state = "CDATASequence" -> state_cdata_sequence(t, c)
      [] t.state = "InAttrValueDq" -> state_in_attr_value_double_quotes(t, c)
      [] t.state = "InAttrName" -> state_in_attr_name(t, c)
      [] t.state = "InDirName" -> state_in_dir_name(t, c)
      [] t.state = "InDirArg" -> state_in_dir_arg(t, c)
      [] t.state = "InDirDynamicArg" -> state_in_dynamic_dir_arg(t, c)
      [] t.state = "InDirModifier" -> state_in_dir_modifier(t, c)
      [] t.state = "InCommentLike" -> state_in_comment_like(t, c)
      [] t.state = "InSpecialComment" -> state_in_special_comment(t, c)
      [] t.state = "BeforeAttrName" -> state_before_attr_name(t, c)
      [] t.state = "InTagName" -> state_in_tag_name(t, c)
      [] t.state = "InSFCRootTagName" -> state_in_sfc_root_tag_name(t, c)
      [] t.state = "InClosingTagName" -> state_in_closing_tag_name(t, c)
      [] t.state = "BeforeTagName" -> state_before_tag_name(t, c)
      [] t.state = "AfterAttrName" -> state_after_attr_name(t, c)
      [] t.state = "InAttrValueSq" -> state_in_attr_value_single_quotes(t, c)
      [] t.state = "BeforeAttrValue" -> state_before_attr_value(t, c)
      [] t.state = "BeforeClosingTagName" -> state_before_closing_tag_name(t, c)
      [] t.state = "AfterClosingTagName" -> state_after_closing_tag_name(t, c)
      [] t.state = "BeforeSpecialS" -> state_before_special_s(t, c)
      [] t.state = "BeforeSpecialT" -> state_before_special_t(t, c)
      [] t.state = "InAttrValueNq" -> state_in_attr_value_no_quotes(t, c)
      [] t.state = "InSelfClosingTag" -> state_in_self_closing_tag(t, c)
      [] t.state = "InDeclaration" -> state_in_declaration(t, c)
      [] t.state = "BeforeDeclaration" -> state_before_declaration(t, c)
      [] t.state = "BeforeComment" -> state_before_comment(t, c)
      [] t.state = "InProcessingInstruction" -> state_in_processing_instruction(t, c)
      [] t.state = "InEntity" -> state_in_entity(t)

\* one iteration of the loop of parse
parse_iteration(t) ==
    LET c == buffer[t.index + 1]
        t0 == IF c = NewLine /\ t.state # "InEntity"
              THEN [t EXCEPT !.newlines = Append(@, t.index)] ELSE t
        t1 == dispatch(t0, c)
    IN [t1 EXCEPT !.index = @ + 1]

cleanup(t) ==
    IF t.section_start # t.index
    THEN IF t.state = "Text" \/ (t.state = "InRCDATA" /\ t.sequence_index = 0)
         THEN IF t.section_start = None THEN Panic(t, "unwrap")
              ELSE [ontext(t, t.section_start, t.index) EXCEPT !.section_start = t.index]
         ELSE IF t.state \in {"InAttrValueDq", "InAttrValueSq", "InAttrValueNq"}
         THEN IF t.section_start = None THEN Panic(t, "unreachable")
              ELSE [onattribdata(t, t.section_start, t.index) EXCEPT !.section_start = t.index]
         ELSE t
    ELSE t

\* the states in which handle_trailing_data drops the unfinished tag
TrailingTagStates ==
    {"InTagName", "BeforeAttrName", "BeforeAttrValue", "AfterAttrName", "InAttrName",
     "InDirName", "InDirArg", "InDirDynamicArg", "InDirModifier", "InAttrValueSq",
     "InAttrValueDq", "InAttrValueNq", "InClosingTagName"}

handle_trailing_data(t) ==
    LET end_index == Len(buffer)
    IN IF t.panic # "none" THEN t
       ELSE IF t.section_start # None /\ t.section_start >= end_index THEN t
       ELSE IF t.state = "InCommentLike"
       THEN IF t.section_start = None THEN Panic(t, "unreachable")
            ELSE IF t.current_sequence = Seq_cdata_end
            THEN oncdata(t, t.section_start, end_index)
            ELSE oncomment(t, t.section_start, end_index)
       ELSE IF t.state \in TrailingTagStates THEN t
       ELSE IF t.section_start = None THEN Panic(t, "unreachable")
       ELSE ontext(t, t.section_start, end_index)

finish(t) ==
    IF t.panic # "none" THEN t
    ELSE IF ~options.browser /\ t.state = "InEntity"
    THEN Panic([t EXCEPT !.state = t.base_state], "todo")
    ELSE onend(handle_trailing_data(t))

----------------------------------------------------------------------------
(* parser.rs: base_parse *)

\* Tokenizer::new on the ParserContext base_parse builds; mode is
\* options.parse_mode, in_xml follows options.ns.  `errors` collects what the
\* error handler of the options receives and `panic` records an abort.  Four
\* history fields observe the run: eof_stack is the open-element stack as onend
\* finds it, attr_log the attribute names as onattribnameend sees them, calls
\* the (start, end) pairs the tokenizer hands to the callbacks of the parser
\* (onend, which takes none, with the end of the input), forwards the calls
\* of fast_forward_to.
NewTokenizer(opts) ==
    [state |-> "Text", section_start |-> 0, index |-> 0, entity_start |-> 0,
     base_state |-> "Text", in_rc_data |-> FALSE,
     in_xml |-> (opts.ns = "SVG" \/ opts.ns = "MathML"),
     in_v_pre |-> FALSE, newlines |-> <<>>, delimiter_index |-> None,
     current_sequence |-> <<>>, sequence_index |-> 0,
     current_root_children |-> <<>>, current_open_tag |-> NoneNode,
     current_prop |-> NoneNode, current_attr_value |-> <<>>,
     current_attr_start_index |-> None, current_attr_end_index |-> None,
     in_pre |-> 0, ctx_in_v_pre |-> FALSE, stack |-> <<>>,
     errors |-> <<>>, panic |-> "none",
     eof_stack |-> <<>>, attr_log |-> <<>>, calls |-> <<>>, forwards |-> <<>>]

\* RootNode::new(vec![], source): the location is the stub
RootNode(children) ==
    [type |-> "Root", source |-> buffer, children |-> children, loc |-> loc_stub]

----------------------------------------------------------------------------
(* The inputs of base_parse: a template and the parser options *)

\* ParserOptions::default(), with GlobalCompileTimeConstants::default()
DefaultOptions ==
    [parse_mode |-> "BASE", ns |-> "HTML", has_is_native_tag |-> FALSE, native_tags |-> {},
     void_tags |-> {}, pre_tags |-> {}, built_in_components |-> {}, custom_elements |-> {},
     prefix_identifiers |-> FALSE, get_namespace |-> "core", whitespace |-> "None",
     comments |-> FALSE, dev |-> FALSE, browser |-> FALSE]

\* a browser production build that preserves whitespace
BrowserOptions == [DefaultOptions EXCEPT !.browser = TRUE, !.whitespace = "Preserve"]

\* a browser development build that keeps comments and knows the void tag <b>
DevOptions ==
    [DefaultOptions EXCEPT !.browser = TRUE, !.dev = TRUE, !.comments = TRUE,
                           !.void_tags = {<<98>>}]

\* compiler-dom's parser_options()
DomOptions ==
    [DefaultOptions EXCEPT !.parse_mode = "HTML", !.pre_tags = {Str_pre},
                           !.get_namespace = "dom",
                           !.built_in_components =
                               { <<84, 114, 97, 110, 115, 105, 116, 105, 111, 110>>,
                                 <<116, 114, 97, 110, 115, 105, 116, 105, 111, 110>>,
                                 <<84, 114, 97, 110, 115, 105, 116, 105, 111, 110, 71, 114, 111, 117, 112>>,
                                 <<116, 114, 97, 110, 115, 105, 116, 105, 111, 110, 45, 103, 114, 111, 117, 112>> }]

\* compiler-dom's options in a browser build (no entity decoding needed)
DomBrowserOptions == [DomOptions EXCEPT !.browser = TRUE]

\* a single-file component
SfcOptions == [DomBrowserOptions EXCEPT !.parse_mode = "SFC"]

\* the most fragments an input is made of
MaxFrags == 3

\* text: "a", " ", "\n", "e-acute", "&", "{{", "}}", "<", ">"
TextFragments ==
    { <<97>>, <<32>>, <<10>>, <<233>>, <<38>>, <<123, 123>>, <<125, 125>>, <<60>>,
      <<62>> }

\* elements: "<a>", "</a>", "<b>", "</b>", "<a/>", "x", " ", "\n", "</"
TagFragments ==
    { <<60, 97, 62>>, <<60, 47, 97, 62>>, <<60, 98, 62>>, <<60, 47, 98, 62>>,
      <<60, 97, 47, 62>>, <<120>>, <<32>>, <<10>>, <<60, 47>> }

\* attributes after "<a": " x", " :x", " v-bind:x", " v-pre", " v-", ".m", "=\"y\"", "=y", ">", "/"
AttrFragments ==
    { <<32, 120>>, <<32, 58, 120>>, <<32, 118, 45, 98, 105, 110, 100, 58, 120>>,
      <<32, 118, 45, 112, 114, 101>>, <<32, 118, 45>>, <<46, 109>>,
      <<61, 34, 121, 34>>, <<61, 121>>, <<62>>, <<47>> }

\* comments and declarations: "<!--", "-->", "\n", "-", "x", "<!", "<?", ">", "<![CDATA[", "]]>"
CommentFragments ==
    { <<60, 33, 45, 45>>, <<45, 45, 62>>, <<10>>, <<45>>, <<120>>, <<60, 33>>,
      <<60, 63>>, <<62>>, <<60, 33, 91, 67, 68, 65, 84, 65, 91>>, <<93, 93, 62>> }

\* RCDATA and raw text: "<title>", "</title>", "<script>", "</script>", "<svg>", "{{", "}}", "x", "<", "\n"
RcDataFragments ==
    { <<60, 116, 105, 116, 108, 101, 62>>, <<60, 47, 116, 105, 116, 108, 101, 62>>,
      <<60, 115, 99, 114, 105, 112, 116, 62>>,
      <<60, 47, 115, 99, 114, 105, 112, 116, 62>>, <<60, 115, 118, 103, 62>>,
      <<123, 123>>, <<125, 125>>, <<120>>, <<60>>, <<10>> }

\* the families of inputs: a prefix, the fragments that follow it, the options
Families ==
    { [prefix |-> <<>>, frags |-> TextFragments, opts |-> {DefaultOptions, BrowserOptions}],
      [prefix |-> <<>>, frags |-> TagFragments, opts |-> {DefaultOptions, DevOptions}],
      [prefix |-> <<60, 97>>, frags |-> AttrFragments, opts |-> {DefaultOptions, DevOptions}],
      [prefix |-> <<>>, frags |-> CommentFragments, opts |-> {DefaultOptions, DevOptions}],
      [prefix |-> <<>>, frags |-> RcDataFragments, opts |-> {DomBrowserOptions, SfcOptions}] }

Inputs(f) ==
    {f.prefix \o Concat(fs) : fs \in UNION {[1..n -> f.frags] : n \in 0..MaxFrags}}

\* the harness of condense_whitespace is idle while base_parse runs
CwIdle == [nodes |-> <<>>, in_pre |-> 0, should_condense |-> TRUE, once |-> <<>>, twice |-> <<>>,
           applied |-> "idle"]

\* transform and generate have not been called
TrIdle == [stage |-> "idle"]

Init ==
    \E f \in Families : \E o \in f.opts : \E input \in Inputs(f) :
        /\ buffer = input
        /\ options = o
        /\ tokenizer = NewTokenizer(o)
        /\ phase = "parsing"
        /\ root = NoneNode
        /\ cw = CwIdle
        /\ tr = TrIdle

\* one iteration of the loop of Tokenizer::parse
ParseStep ==
    /\ phase = "parsing"
    /\ tokenizer.index < Len(buffer)
    /\ \E t1 \in {parse_iteration(tokenizer)} :
          IF t1.panic # "none"
          THEN tokenizer' = [Panic(tokenizer, t1.panic) EXCEPT !.calls = t1.calls]
               /\ phase' = "panicked"
          ELSE tokenizer' = t1 /\ phase' = "parsing"
    /\ UNCHANGED <<buffer, options, root, cw, tr>>

\* the end of Tokenizer::parse: cleanup and finish (trailing data, onend)
TokenizerFinish ==
    /\ phase = "parsing"
    /\ tokenizer.index >= Len(buffer)
    /\ \E t1 \in {finish(cleanup(tokenizer))} :
          IF t1.panic # "none"
          THEN tokenizer' = [Panic(tokenizer, t1.panic) EXCEPT !.calls = t1.calls]
               /\ phase' = "panicked"
          ELSE tokenizer' = t1 /\ phase' = "ended"
    /\ UNCHANGED <<buffer, options, root, cw, tr>>

\* the end of base_parse: the root's children are condensed and the root returned
BaseParseReturn ==
    /\ phase = "ended"
    /\ root' = RootNode(condense_whitespace(tokenizer.current_root_children,
                                            options.whitespace # "Preserve",
                                            tokenizer.in_pre))
    /\ phase' = "done"
    /\ UNCHANGED <<buffer, options, tokenizer, cw, tr>>

Next == ParseStep \/ TokenizerFinish \/ BaseParseReturn

Spec == Init /\ [][Next]_vars

----------------------------------------------------------------------------
(* base_parse with compiler-dom's options on markup inside RCDATA elements *)

\* "<title>", "</title>", "<script>", "</script>", "<a>", "</a>", "<!--c-->",
\* "\n", "x", "{{z}}", "<"
RcDataMarkup ==
    { <<60, 116, 105, 116, 108, 101, 62>>, <<60, 47, 116, 105, 116, 108, 101, 62>>,
      <<60, 115, 99, 114, 105, 112, 116, 62>>,
      <<60, 47, 115, 99, 114, 105, 112, 116, 62>>,
      <<60, 97, 62>>, <<60, 47, 97, 62>>, <<60, 33, 45, 45, 99, 45, 45, 62>>,
      <<10>>, <<120>>, <<123, 123, 122, 125, 125>>, <<60>> }

InitRcData ==
    \E input \in {Concat(fs) : fs \in UNION {[1..n -> RcDataMarkup] : n \in 0..MaxFrags}} :
        /\ buffer = input
        /\ options = DomBrowserOptions
        /\ tokenizer = NewTokenizer(DomBrowserOptions)
        /\ phase = "parsing"
        /\ root = NoneNode
        /\ cw = CwIdle
        /\ tr = TrIdle

SpecRcData == InitRcData /\ [][Next]_vars

----------------------------------------------------------------------------
(* base_parse on elements inside and after an element with v-pre *)

\* "<p v-pre>", "</p>", "<a>", "</a>", "<i/>", "<b :x/>", "<b :x>", "x"
VPreMarkup ==
    { <<60, 112, 32, 118, 45, 112, 114, 101, 62>>, <<60, 47, 112, 62>>,
      <<60, 97, 62>>, <<60, 47, 97, 62>>, <<60, 105, 47, 62>>,
      <<60, 98, 32, 58, 120, 47, 62>>, <<60, 98, 32, 58, 120, 62>>, <<120>> }

InitVPre ==
    \E o \in {DefaultOptions, DevOptions} :
        \E input \in {Concat(fs) : fs \in UNION {[1..n -> VPreMarkup] : n \in 0..MaxFrags}} :
            /\ buffer = input
            /\ options = o
            /\ tokenizer = NewTokenizer(o)
            /\ phase = "parsing"
            /\ root = NoneNode
            /\ cw = CwIdle
            /\ tr = TrIdle

SpecVPre == InitVPre /\ [][Next]_vars

----------------------------------------------------------------------------
(* base_parse with compiler-dom's options on text inside and after <pre> *)

\* "<pre>", "</pre>", "<a>", "</a>", "x  x", "\n", " "
PreMarkup ==
    { <<60, 112, 114, 101, 62>>, <<60, 47, 112, 114, 101, 62>>,
      <<60, 97, 62>>, <<60, 47, 97, 62>>, <<120, 32, 32, 120>>, <<10>>, <<32>> }

InitPre ==
    \E o \in {DomOptions, DomBrowserOptions} :
        \E input \in {Concat(fs) : fs \in UNION {[1..n -> PreMarkup] : n \in 0..MaxFrags}} :
            /\ buffer = input
            /\ options = o
            /\ tokenizer = NewTokenizer(o)
            /\ phase = "parsing"
            /\ root = NoneNode
            /\ cw = CwIdle
            /\ tr = TrIdle

SpecPre == InitPre /\ [][Next]_vars

----------------------------------------------------------------------------
(* condense_whitespace on its own: a child list, condensed and condensed     *)
(* again with the same should_condense and in_pre                            *)

MaxNodes == 3

\* " ", "\n", "a", "a  b", "\r\r\n"
TextContents ==
    {<<32>>, <<10>>, <<97>>, <<97, 32, 32, 98>>, <<13, 13, 10>>}

ChildNodes ==
    {TextNode(c, loc_stub) : c \in TextContents}
    \cup {CommentNode(<<97>>, loc_stub),
          [type |-> "Element", ns |-> "HTML", tag |-> <<97>>, tag_type |-> "Element",
           props |-> <<>>, children |-> <<>>, is_self_closing |-> FALSE, loc |-> loc_stub]}

ChildLists == UNION {[1..n -> ChildNodes] : n \in 0..MaxNodes}

InitCondense ==
    \E nodes \in ChildLists : \E pre \in {0, 1} : \E sc \in BOOLEAN :
        /\ buffer = <<>>
        /\ options = DefaultOptions
        /\ tokenizer = NewTokenizer(DefaultOptions)
        /\ phase = "condense"
        /\ root = NoneNode
        /\ cw = [nodes |-> nodes, in_pre |-> pre, should_condense |-> sc,
                 once |-> <<>>, twice |-> <<>>, applied |-> "no"]
        /\ tr = TrIdle

\* condense_whitespace applied to the child list
CondenseOnce ==
    /\ cw.applied = "no"
    /\ cw' = [cw EXCEPT !.once = condense_whitespace(cw.nodes, cw.should_condense, cw.in_pre),
                        !.applied = "once"]
    /\ UNCHANGED <<buffer, options, tokenizer, phase, root, tr>>

\* condense_whitespace applied to the list it produced
CondenseAgain ==
    /\ cw.applied = "once"
    /\ cw' = [cw EXCEPT !.twice = condense_whitespace(cw.once, cw.should_condense, cw.in_pre),
                        !.applied = "twice"]
    /\ UNCHANGED <<buffer, options, tokenizer, phase, root, tr>>

NextCondense == CondenseOnce \/ CondenseAgain

SpecCondense == InitCondense /\ [][NextCondense]_vars

----------------------------------------------------------------------------
(* The transform pass (transform.rs, transforms/v_if.rs,                     *)
(* transforms/transform_element.rs).  The walker threads one record          *)
(* s = [ch, c, on_exit]: the child list of the parent being walked           *)
(* (context.parent.children_mut()), the TransformContext, and the state the  *)
(* TransformIf clone of the current visit keeps between its two phases.      *)

\* the runtime helper names (runtime_helpers.rs)
Fragment == <<70, 114, 97, 103, 109, 101, 110, 116>>
OpenBlock == <<111, 112, 101, 110, 66, 108, 111, 99, 107>>
CreateBlock == <<99, 114, 101, 97, 116, 101, 66, 108, 111, 99, 107>>
CreateElementBlock ==
    <<99, 114, 101, 97, 116, 101, 69, 108, 101, 109, 101, 110, 116, 66, 108, 111, 99, 107>>
CreateVNode == <<99, 114, 101, 97, 116, 101, 86, 78, 111, 100, 101>>
CreateElementVNode ==
    <<99, 114, 101, 97, 116, 101, 69, 108, 101, 109, 101, 110, 116, 86, 78, 111, 100, 101>>
CreateComment ==
    <<99, 114, 101, 97, 116, 101, 67, 111, 109, 109, 101, 110, 116, 86, 78, 111, 100, 101>>
CreateText == <<99, 114, 101, 97, 116, 101, 84, 101, 120, 116, 86, 78, 111, 100, 101>>
CreateStatic ==
    <<99, 114, 101, 97, 116, 101, 83, 116, 97, 116, 105, 99, 86, 78, 111, 100, 101>>
ResolveComponent ==
    <<114, 101, 115, 111, 108, 118, 101, 67, 111, 109, 112, 111, 110, 101, 110, 116>>
ResolveDirective ==
    <<114, 101, 115, 111, 108, 118, 101, 68, 105, 114, 101, 99, 116, 105, 118, 101>>
ToDisplayString == <<116, 111, 68, 105, 115, 112, 108, 97, 121, 83, 116, 114, 105, 110, 103>>
NormalizeClass == <<110, 111, 114, 109, 97, 108, 105, 122, 101, 67, 108, 97, 115, 115>>

Str_key == <<107, 101, 121>>
Str_style == <<115, 116, 121, 108, 101>>
Str_true == <<116, 114, 117, 101>>
Str_v_if_quoted == <<34, 118, 45, 105, 102, 34>>
Str_empty_quoted == <<34, 34>>

\* usize::to_string
RECURSIVE to_string(_)
to_string(n) == IF n < 10 THEN <<48 + n>> ELSE to_string(n \div 10) \o <<48 + (n % 10)>>

\* PatchFlags (compiler-shared/src/patch_flags.rs): the bits of one flag set
PatchFlags_Text == 1
PatchFlags_Class == 2
PatchFlags_FullProps == 16
PatchFlags_StableFragment == 64
PatchFlags(bits) == [type |-> "PatchFlags", bits |-> bits]

\* get_base_transform_preset: the node transforms in registration order
NodeTransforms == <<"transform_if", "transform_for", "transform_element">>

\* get_base_transform_preset: the names that have a directive transform
DirectiveTransforms == {Str_bind}

\* TransformContext::new
NewTransformContext(topts) ==
    [ssr |-> topts.ssr, in_ssr |-> topts.in_ssr, dev |-> topts.dev,
     helpers |-> <<>>, child_index |-> 0, current_node |-> FALSE, node_removed |-> FALSE,
     visits |-> 0, log |-> <<>>, panic |-> "none"]

\* TransformContext::helper: the count of the name goes up, a new name is
\* inserted at the end of the IndexMap
helper(c, name) ==
    IF \E k \in 1..Len(c.helpers) : c.helpers[k].name = name
    THEN [c EXCEPT !.helpers = [k \in 1..Len(c.helpers) |->
                                   IF c.helpers[k].name = name
                                   THEN [name |-> name, count |-> c.helpers[k].count + 1]
                                   ELSE c.helpers[k]]]
    ELSE [c EXCEPT !.helpers = Append(c.helpers, [name |-> name, count |-> 1])]

\* the keys of the IndexMap, in insertion order
helper_keys(c) == [k \in 1..Len(c.helpers) |-> c.helpers[k].name]

\* Option<codegen node> of an element or If node: the parser sets none
codegen_node_of(n) == IF "codegen_node" \in DOMAIN n THEN n.codegen_node ELSE NoneNode

\* the element with its codegen_node set
with_codegen_node(el, codegen) ==
    [type |-> "Element", ns |-> el.ns, tag |-> el.tag, tag_type |-> el.tag_type,
     props |-> el.props, children |-> el.children, is_self_closing |-> el.is_self_closing,
     loc |-> el.loc, codegen_node |-> codegen]

\* get_vnode_helper, get_vnode_block_helper
get_vnode_helper(ssr, is_comp) == IF ssr \/ is_comp THEN CreateVNode ELSE CreateElementVNode
get_vnode_block_helper(ssr, is_comp) ==
    IF ssr \/ is_comp THEN CreateBlock ELSE CreateElementBlock

\* VNodeCall::new, the node
VNodeCall(tag, props, children, patch_flag, is_block, disable_tracking, is_comp, loc) ==
    [type |-> "VNodeCall", tag |-> tag, props |-> props, children |-> children,
     patch_flag |-> patch_flag, is_block |-> is_block,
     disable_tracking |-> disable_tracking, is_component |-> is_comp, loc |-> loc]

\* VNodeCall::new, the helpers it registers with the context
vnode_call_helpers(c, is_block, is_comp) ==
    IF is_block
    THEN helper(helper(c, OpenBlock), get_vnode_block_helper(c.in_ssr, is_comp))
    ELSE helper(c, get_vnode_helper(c.in_ssr, is_comp))

\* Property::new, ObjectExpression::new, CallExpression::new
Property(key, value) == [type |-> "Property", key |-> key, value |-> value]
ObjectExpression(properties, loc) ==
    [type |-> "ObjectExpression", properties |-> properties, loc |-> loc]
CallExpression(callee_kind, callee, arguments) ==
    [type |-> "CallExpression", callee_kind |-> callee_kind, callee |-> callee,
     arguments |-> arguments, loc |-> loc_stub]

\* find_dir(node, name, None)
find_dir(node, name) ==
    LET hits == {k \in 1..Len(node.props) :
                    /\ node.props[k].type = "Directive"
                    /\ ~IsNone(node.props[k].exp)
                    /\ node.props[k].name = name}
    IN IF hits = {} THEN NoneNode ELSE node.props[Min(hits)]

\* is_static_arg_of
is_static_arg_of(arg, name) ==
    ~IsNone(arg) /\ arg.type = "SimpleExpression" /\ arg.is_static /\ arg.content = name

\* find_prop(node, name, None, None)
find_prop(node, name) ==
    LET hits == {k \in 1..Len(node.props) :
                    \/ /\ node.props[k].type = "Attribute"
                       /\ node.props[k].name = name
                       /\ ~IsNone(node.props[k].value)
                    \/ /\ node.props[k].type = "Directive"
                       /\ node.props[k].name = Str_bind
                       /\ ~IsNone(node.props[k].exp)
                       /\ is_static_arg_of(node.props[k].arg, name)}
    IN IF hits = {} THEN NoneNode ELSE node.props[Min(hits)]

\* IfBranchNode::new
IfBranchNode(node, dir) ==
    [type |-> "IfBranch",
     condition |-> IF dir.name = Str_else THEN NoneNode ELSE dir.exp,
     children |-> IF node.tag_type = "Template" /\ IsNone(find_dir(node, Str_for))
                  THEN node.children ELSE <<node>>,
     user_key |-> find_prop(node, Str_key),
     is_template_if |-> (node.tag_type = "Template"),
     loc |-> node.loc]

\* StructuralDirectiveTransform::matches of TransformIf
if_matches(name) == name \in {Str_if, Str_else, Str_else_if}

\* process_codegen of v_if.rs: the key of a branch is the number of branches
\* of the If nodes among the siblings before it
RECURSIVE branches_before(_, _)
branches_before(siblings, i) ==
    IF i = 0 THEN 0
    ELSE branches_before(siblings, i - 1)
         + (IF siblings[i].type = "If" THEN Len(siblings[i].branches) ELSE 0)
process_codegen(siblings, child_index, branch, is_root) ==
    [branch |-> branch, is_root |-> is_root, key |-> branches_before(siblings, child_index)]

\* create_children_codegen_node, the node: always the Fragment block
create_children_codegen_node(branch, key_index) ==
    VNodeCall(Fragment,
              ObjectExpression(
                  <<Property(SimpleExpressionNode(Str_key, TRUE, loc_stub, "NotConstant"),
                             SimpleExpressionNode(to_string(key_index), FALSE, loc_stub,
                                                  "CanCache"))>>,
                  loc_stub),
              [type |-> "VNodeCallChildren", kind |-> "TemplateChildNodeList",
               list |-> branch.children],
              PatchFlags(PatchFlags_StableFragment), TRUE, FALSE, FALSE, branch.loc)

\* create_children_codegen_node, the helpers: Fragment, then those of the block
children_codegen_helpers(c) == vnode_call_helpers(helper(c, Fragment), TRUE, FALSE)

\* IfConditionalExpression::get_parent_condition, and the alternate of the
\* condition it finds replaced
RECURSIVE set_parent_alternate(_, _)
set_parent_alternate(cond, alternate) ==
    IF cond.alternate.type = "IfConditional"
    THEN [cond EXCEPT !.alternate = set_parent_alternate(cond.alternate, alternate)]
    ELSE [cond EXCEPT !.alternate = alternate]

\* TransformIfState::exit for the root branch (is_root): the conditional of
\* the If node; the consequent is built before the comment helper is asked for
if_root_codegen(state, c) ==
    [type |-> "IfConditional",
     test |-> state.branch.condition,
     consequent |-> create_children_codegen_node(state.branch, state.key),
     alternate |-> CallExpression("String", CreateComment,
                       << [kind |-> "String",
                           str |-> IF c.dev THEN Str_v_if_quoted ELSE Str_empty_quoted],
                          [kind |-> "String", str |-> Str_true] >>),
     newline |-> TRUE]

\* TransformIfState::exit: s.ch[j] is the If node the state belongs to
if_state_exit(s, j, state) ==
    IF s.c.panic # "none" THEN s
    ELSE IF state.is_root
    THEN (IF IsNone(state.branch.condition)
          THEN [s EXCEPT !.c = Panic(s.c, "unreachable")]
          ELSE [s EXCEPT !.ch[j].codegen_node = if_root_codegen(state, s.c),
                         !.c = helper(children_codegen_helpers(s.c), CreateComment)])
    ELSE IF IsNone(s.ch[j].codegen_node)
    THEN [s EXCEPT !.c = Panic(s.c, "unreachable")]
    ELSE [s EXCEPT !.ch[j].codegen_node =
                       set_parent_alternate(s.ch[j].codegen_node,
                           create_children_codegen_node(
                               state.branch, state.key + Len(s.ch[j].branches) - 1)),
                   !.c = children_codegen_helpers(s.c)]

\* one entry of the log of phases: transform k of NodeTransforms fired its
\* enter or exit phase on the node of visit v, whose parent visit is pv, while
\* context.child_index was `index`
log_phase(s, ev, k, v, pv) ==
    [s EXCEPT !.c.log = Append(@, [ev |-> ev, tf |-> k, visit |-> v, parent |-> pv,
                                   index |-> s.c.child_index])]

\* one entry of the log: transform k removed or replaced the node of visit v
log_change(c, ev, k, v) ==
    [c EXCEPT !.log = Append(@, [ev |-> ev, tf |-> k, visit |-> v, parent |-> 0,
                                 index |-> c.child_index])]

RECURSIVE traverse_node(_, _, _)

\* TransformIf::transform, a v-else / v-else-if that found the If node s.ch[j]:
\* the nested traversal of the branch has returned r
attach_traversed(s, r) == [s EXCEPT !.c = r.c, !.branch = r.ch[1]]

\* remove_node(None), IfBranchNode::new and context.traverse_node(&mut branch)
attach_traverse(s, i, dir, v) ==
    attach_traversed(s,
        traverse_node([ch |-> <<IfBranchNode(s.ch[i], dir)>>,
                       c |-> [log_change(s.c, "remove", 1, v)
                                 EXCEPT !.current_node = FALSE, !.node_removed = TRUE],
                       on_exit |-> <<>>, branch |-> NoneNode], 1, v))

\* sibling.branches.push(branch); context.current_node = None
attach_finish(s, j) ==
    IF s.c.panic # "none" THEN s
    ELSE [s EXCEPT !.ch[j].branches = Append(@, s.branch), !.c.current_node = FALSE]

attach_branch(s, i, j, dir, v) ==
    attach_finish(
        if_state_exit(attach_traverse(s, i, dir, v), j,
                      process_codegen(s.ch, i - 1, IfBranchNode(s.ch[i], dir), FALSE)),
        j)

\* the loop over the siblings before the element, from the nearest to the
\* first: it goes on after an If node was found
RECURSIVE if_else_loop(_, _, _, _, _)
if_else_loop(s, i, j, dir, v) ==
    IF j = 0 \/ s.c.panic # "none" THEN s
    ELSE if_else_loop(IF s.ch[j].type = "If" THEN attach_branch(s, i, j, dir, v) ELSE s,
                      i, j - 1, dir, v)

\* TransformContext::replace_node, then process_codegen and self.0.push
if_replace_node(s, i, dir, v) ==
    IF s.c.dev /\ ~s.c.current_node
    THEN [s EXCEPT !.c = Panic(s.c, "Node being replaced is already removed.")]
    ELSE [s EXCEPT !.ch[i] = [type |-> "If", branches |-> <<IfBranchNode(s.ch[i], dir)>>,
                              codegen_node |-> NoneNode, loc |-> s.ch[i].loc],
                   !.c = [log_change(@, "replace", 1, v) EXCEPT !.current_node = TRUE],
                   !.on_exit = Append(@, process_codegen(s.ch, i - 1,
                                                         IfBranchNode(s.ch[i], dir), TRUE))]

\* TransformIf::transform, one directive of the element.  After a v-if of
\* the same element replaced the node, `node` refers to the overwritten
\* element: the read is undefined and ends the run here.
if_dir(s, i, dir, v) ==
    IF s.c.panic # "none" THEN s
    ELSE IF s.ch[i].type # "Element" THEN [s EXCEPT !.c = Panic(s.c, "dangling")]
    ELSE IF dir.name = Str_if THEN if_replace_node(s, i, dir, v)
    ELSE if_else_loop(s, i, i - 1, dir, v)

RECURSIVE if_dirs(_, _, _, _, _)
if_dirs(s, i, dirs, k, v) ==
    IF k > Len(dirs) THEN s ELSE if_dirs(if_dir(s, i, dirs[k], v), i, dirs, k + 1, v)

is_if_dir(p) == p.type = "Directive" /\ if_matches(p.name)
is_not_if_dir(p) == ~is_if_dir(p)

\* TransformIf::transform with StructuralDirectiveTransform::transform: the
\* matching directives are taken out of the props of the element
TransformIf_transform(s, i, v) ==
    IF s.ch[i].type # "Element" THEN s
    ELSE IF SelectSeq(s.ch[i].props, is_if_dir) = <<>> THEN s
    ELSE if_dirs([s EXCEPT !.ch[i].props = SelectSeq(@, is_not_if_dir), !.on_exit = <<>>],
                 i, SelectSeq(s.ch[i].props, is_if_dir), 1, v)

\* TransformIf::exit: every state of this visit completes the If node
RECURSIVE TransformIf_exit(_, _, _)
TransformIf_exit(s, i, k) ==
    IF k > Len(s.on_exit) \/ s.c.panic # "none" THEN [s EXCEPT !.on_exit = <<>>]
    ELSE IF s.ch[i].type # "If" THEN [s EXCEPT !.c = Panic(s.c, "unreachable")]
    ELSE TransformIf_exit(if_state_exit(s, i, s.on_exit[k]), i, k + 1)

Str_foreignObject == <<102, 111, 114, 101, 105, 103, 110, 79, 98, 106, 101, 99, 116>>

\* TransformBind::transform
TransformBind_transform(dir) ==
    IF IsNone(dir.arg) \/ IsNone(dir.exp) THEN [panic |-> "unreachable", props |-> <<>>]
    ELSE [panic |-> "none", props |-> <<Property(dir.arg, dir.exp)>>]

is_static_key(p) == p.key.type = "SimpleExpression" /\ p.key.is_static

\* build_props, the loop over the props of the element: one prop
build_props_directive(acc, r, ssr) ==
    IF r.panic # "none" THEN [acc EXCEPT !.panic = r.panic]
    ELSE [acc EXCEPT
            !.properties = @ \o r.props,
            !.has_class_binding =
                @ \/ (~ssr /\ \E k \in 1..Len(r.props) :
                                 is_static_key(r.props[k]) /\ r.props[k].key.content = Str_class),
            !.has_dynamic_keys =
                @ \/ (~ssr /\ \E k \in 1..Len(r.props) : ~is_static_key(r.props[k]))]

build_props_prop(acc, prop, ssr) ==
    IF acc.panic # "none" THEN acc
    ELSE IF prop.type = "Attribute"
    THEN [acc EXCEPT !.properties = Append(@,
            Property(SimpleExpressionNode(prop.name, TRUE, prop.name_loc, "NotConstant"),
                     IF IsNone(prop.value)
                     THEN SimpleExpressionNode(<<>>, TRUE, prop.loc, "NotConstant")
                     ELSE SimpleExpressionNode(prop.value.content, TRUE, prop.value.loc,
                                               "NotConstant")))]
    ELSE IF prop.name \in DirectiveTransforms
    THEN build_props_directive(acc, TransformBind_transform(prop), ssr)
    ELSE acc

RECURSIVE build_props_loop(_, _, _, _)
build_props_loop(acc, props, k, ssr) ==
    IF k > Len(props) THEN acc
    ELSE build_props_loop(build_props_prop(acc, props[k], ssr), props, k + 1, ssr)

\* a patch flag analysis that sets FULL_PROPS for dynamic keys and still
\* adds the bit of the class binding
props_patch_flag_full_and_class(acc, is_comp) ==
    IF acc.has_class_binding /\ ~is_comp
    THEN PatchFlags((IF acc.has_dynamic_keys THEN PatchFlags_FullProps ELSE 0)
                    + PatchFlags_Class)
    ELSE IF acc.has_dynamic_keys THEN PatchFlags(PatchFlags_FullProps)
    ELSE NoneNode

\* build_props, the patch flag analysis
props_patch_flag(acc, is_comp) ==
    IF ~acc.has_dynamic_keys /\ acc.has_class_binding /\ ~is_comp
    THEN PatchFlags(PatchFlags_Class)
    ELSE NoneNode

\* build_props, the class key of the props object: the last static `class`
class_key_index(properties) ==
    LET hits == {k \in 1..Len(properties) :
                    is_static_key(properties[k]) /\ properties[k].key.content = Str_class}
    IN IF hits = {} THEN 0 ELSE Max(hits)

is_static_exp(e) == e.type = "SimpleExpression" /\ e.is_static

\* build_props, whether the class value is wrapped in normalizeClass
normalizes_class(c, properties) ==
    /\ ~c.in_ssr
    /\ properties # <<>>
    /\ \A k \in 1..Len(properties) : is_static_key(properties[k])
    /\ class_key_index(properties) # 0
    /\ ~is_static_exp(properties[class_key_index(properties)].value)

normalized_properties(c, properties) ==
    IF normalizes_class(c, properties)
    THEN [properties EXCEPT ![class_key_index(properties)].value =
             CallExpression("Symbol", NormalizeClass, <<[kind |-> "JSChild", node |-> @]>>)]
    ELSE properties

\* build_props, from the result of its loop
build_props_result(acc, node, c, is_comp) ==
    [panic |-> acc.panic,
     props |-> IF acc.properties = <<>> THEN NoneNode
               ELSE ObjectExpression(normalized_properties(c, acc.properties), node.loc),
     patch_flag |-> props_patch_flag(acc, is_comp),
     should_use_block |-> FALSE,
     c |-> IF normalizes_class(c, acc.properties) THEN helper(c, NormalizeClass) ELSE c]

build_props(node, c, is_comp) ==
    build_props_result(
        build_props_loop([properties |-> <<>>, has_class_binding |-> FALSE,
                          has_dynamic_keys |-> FALSE, panic |-> "none"],
                         node.props, 1, c.ssr),
        node, c, is_comp)

\* post_transform_element, the children of the VNodeCall
vnode_children(node) ==
    IF node.children = <<>> THEN NoneNode
    ELSE IF Len(node.children) = 1
            /\ node.children[1].type \in {"Interpolation", "CompoundExpression", "Text"}
    THEN [type |-> "VNodeCallChildren", kind |-> "TemplateTextChildNode", node |-> node.children[1]]
    ELSE [type |-> "VNodeCallChildren", kind |-> "TemplateChildNodeList", list |-> node.children]

forces_block(node) ==
    node.tag_type # "Component" /\ node.tag \in {Str_svg, Str_foreignObject, Str_math}

\* post_transform_element, after build_props returned b: only a PlainElement
\* gets the VNodeCall
element_codegen(s, i, b) ==
    IF b.panic # "none" THEN [s EXCEPT !.c = Panic(s.c, b.panic)]
    ELSE IF s.ch[i].tag_type # "Element" THEN [s EXCEPT !.c = b.c]
    ELSE [s EXCEPT
            !.ch[i] = with_codegen_node(@,
                          VNodeCall(<<34>> \o s.ch[i].tag \o <<34>>, b.props,
                                    vnode_children(s.ch[i]), b.patch_flag,
                                    forces_block(s.ch[i]) \/ b.should_use_block,
                                    FALSE, FALSE, s.ch[i].loc)),
            !.c = vnode_call_helpers(b.c, forces_block(s.ch[i]) \/ b.should_use_block, FALSE)]

\* post_transform_element (TransformElement::exit)
post_transform_element(s, i) ==
    IF s.c.panic # "none" THEN s
    ELSE IF s.ch[i].type # "Element" THEN s
    ELSE IF s.ch[i].tag_type \notin {"Element", "Component"} THEN s
    ELSE element_codegen(s, i,
            IF s.ch[i].props # <<>>
            THEN build_props(s.ch[i], s.c, s.ch[i].tag_type = "Component")
            ELSE [panic |-> "none", props |-> NoneNode, patch_flag |-> NoneNode,
                  should_use_block |-> FALSE, c |-> s.c])

\* NodeTransform::transform of the k-th registered transform.  TransformFor
\* (v_for.rs) and TransformElement implement no `transform` for the walker of
\* transform.rs: the default body of the trait runs, which does nothing.
node_transform_enter(s, i, k, v) ==
    IF NodeTransforms[k] = "transform_if" THEN TransformIf_transform(s, i, v) ELSE s

\* NodeTransform::exit of the k-th registered transform
node_transform_exit(s, i, k) ==
    IF NodeTransforms[k] = "transform_if" THEN TransformIf_exit(s, i, 1)
    ELSE IF NodeTransforms[k] = "transform_element" THEN post_transform_element(s, i)
    ELSE s

\* traverse_node, `for node_transform in &mut node_transforms { transform }`:
\* the loop returns as soon as a transform removed the node
RECURSIVE enter_transforms(_, _, _, _, _)
enter_transforms(s, i, k, v, pv) ==
    IF k > Len(NodeTransforms) \/ ~s.c.current_node \/ s.c.panic # "none" THEN s
    ELSE enter_transforms(node_transform_enter(log_phase(s, "enter", k, v, pv), i, k, v),
                          i, k + 1, v, pv)

\* traverse_node, `for node_transform in &mut node_transforms { exit }`: the
\* same loop over the same vector, from its first entry to its last
RECURSIVE exit_transforms(_, _, _, _, _)
exit_transforms(s, i, k, v, pv) ==
    IF k > Len(NodeTransforms) \/ s.c.panic # "none" THEN s
    ELSE exit_transforms(node_transform_exit(log_phase(s, "exit", k, v, pv), i, k),
                         i, k + 1, v, pv)

RECURSIVE traverse_children_from(_, _, _)

\* traverse_node, the children of an element have been walked: r
children_traversed(s, i, r) == [s EXCEPT !.ch[i].children = r.ch, !.c = r.c]

\* traverse_node, `match node`: the helper of a comment or an interpolation,
\* the children of an element; an If node is not walked into
traverse_inner(s, i, v) ==
    IF s.ch[i].type = "Comment"
    THEN (IF ~s.c.ssr THEN [s EXCEPT !.c = helper(@, CreateComment)] ELSE s)
    ELSE IF s.ch[i].type = "Interpolation"
    THEN (IF ~s.c.ssr THEN [s EXCEPT !.c = helper(@, ToDisplayString)] ELSE s)
    ELSE IF s.ch[i].type = "Element"
    THEN children_traversed(s, i,
            traverse_children_from(
                [ch |-> s.ch[i].children, c |-> [s.c EXCEPT !.node_removed = FALSE],
                 on_exit |-> <<>>, branch |-> NoneNode], 1, v))
    ELSE s

\* traverse_node, after the enter phases
traverse_entered(s, i, v, pv) ==
    IF ~s.c.current_node \/ s.c.panic # "none" THEN s
    ELSE exit_transforms([traverse_inner(s, i, v) EXCEPT !.c.current_node = TRUE],
                         i, 1, v, pv)

\* TransformContext::traverse_node on s.ch[i]; the visit gets the next number
traverse_node(s, i, pv) ==
    traverse_entered(
        enter_transforms([s EXCEPT !.c.visits = @ + 1, !.c.current_node = TRUE,
                                   !.on_exit = <<>>],
                         i, 1, s.c.visits + 1, pv),
        i, s.c.visits + 1, pv)

\* traverse_children, after the visit of child i: a removed node makes the loop
\* stay at i (`i -= 1; i += 1`, which overflows at 0 in a debug build)
traverse_children_next(s, i, pv) ==
    IF s.c.panic # "none" THEN s
    ELSE IF s.c.node_removed
    THEN (IF i = 1 THEN [s EXCEPT !.c = Panic(s.c, "overflow")]
          ELSE traverse_children_from([s EXCEPT !.c.node_removed = FALSE], i, pv))
    ELSE traverse_children_from(s, i + 1, pv)

\* traverse_children, the loop from child i on
traverse_children_from(s, i, pv) ==
    IF i > Len(s.ch) \/ s.c.panic # "none" THEN s
    ELSE traverse_children_next(
             traverse_node([s EXCEPT !.c.child_index = i - 1], i, pv), i, pv)

\* the transform_root phases of traverse_root_node: every transform keeps the
\* default body
RECURSIVE enter_root_transforms(_, _)
enter_root_transforms(c, k) ==
    IF k > Len(NodeTransforms) THEN c
    ELSE enter_root_transforms(
             [c EXCEPT !.log = Append(@, [ev |-> "enter", tf |-> k, visit |-> 1,
                                          parent |-> 0, index |-> 0])], k + 1)

\* the exit phases of traverse_root_node: the current node is the root, which
\* is neither an If node with states nor an element
RECURSIVE exit_root_transforms(_, _)
exit_root_transforms(c, k) ==
    IF k > Len(NodeTransforms) \/ c.panic # "none" THEN c
    ELSE exit_root_transforms(
             [c EXCEPT !.log = Append(@, [ev |-> "exit", tf |-> k, visit |-> 1,
                                          parent |-> 0, index |-> 0])], k + 1)

\* TransformContext::traverse_root_node
root_traversed(r) ==
    [ch |-> r.ch, c |-> exit_root_transforms([r.c EXCEPT !.current_node = TRUE], 1)]

traverse_root_node(children, c) ==
    root_traversed(
        traverse_children_from(
            [ch |-> children,
             c |-> enter_root_transforms([c EXCEPT !.visits = 1, !.current_node = TRUE], 1),
             on_exit |-> <<>>, branch |-> NoneNode], 1, 1))

\* get_single_element_root_codegen
not_comment(n) == n.type # "Comment"
get_single_element_root_codegen(children) ==
    IF Len(SelectSeq(children, not_comment)) = 1
       /\ SelectSeq(children, not_comment)[1].type = "Element"
       /\ SelectSeq(children, not_comment)[1].tag_type # "Slot"
    THEN SelectSeq(children, not_comment)[1]
    ELSE NoneNode

\* create_root_codegen, the codegen node of the root
root_codegen_node(children) ==
    IF Len(children) = 1
    THEN (IF ~IsNone(get_single_element_root_codegen(children))
          THEN get_single_element_root_codegen(children)
          ELSE children[1])
    ELSE IF Len(children) > 1
    THEN VNodeCall(Fragment, NoneNode,
                   [type |-> "VNodeCallChildren", kind |-> "TemplateChildNodeList",
                    list |-> children],
                   PatchFlags(PatchFlags_StableFragment), TRUE, FALSE, FALSE, loc_stub)
    ELSE NoneNode

\* create_root_codegen, the helpers of the fragment of several children
root_codegen_helpers(children, c) ==
    IF Len(children) > 1 THEN vnode_call_helpers(helper(c, Fragment), TRUE, FALSE) ELSE c

\* transform, after the traversal returned r: the root as transform leaves it
\* and the context it drops
transformed(ast, r) ==
    [root |-> [type |-> "Root", source |-> ast.source, children |-> r.ch, loc |-> ast.loc,
               codegen_node |-> IF r.c.ssr THEN NoneNode ELSE root_codegen_node(r.ch),
               helpers |-> helper_keys(IF r.c.ssr THEN r.c
                                       ELSE root_codegen_helpers(r.ch, r.c)),
               components |-> <<>>, directives |-> <<>>, hoists |-> <<>>, temps |-> 0,
               transformed |-> TRUE],
     c |-> IF r.c.ssr THEN r.c ELSE root_codegen_helpers(r.ch, r.c)]

\* transform(root, options)
transform(ast, topts) ==
    transformed(ast, traverse_root_node(ast.children, NewTransformContext(topts)))

----------------------------------------------------------------------------
(* Code generation (codegen.rs).  The generated code is the sequence of the   *)
(* pieces the CodegenContext pushes: fixed text ("lit"), the content of an    *)
(* expression or a string stored in the tree ("src"), a JSON-quoted string     *)
(* ("json"), a helper printed by CodegenContext::helper ("helper": an          *)
(* underscore and the name), one entry of a list of helpers ("alias"), and a   *)
(* line break with its indentation ("newline").                               *)

\* is_simple_identifier
is_simple_identifier(name) ==
    /\ name # <<>>
    /\ ~(name[1] >= 48 /\ name[1] <= 57)
    /\ \A k \in 1..Len(name) :
          \/ name[k] = 36
          \/ (name[k] >= LowerA /\ name[k] <= LowerZ)
          \/ (name[k] >= UpperA /\ name[k] <= UpperZ)
          \/ (name[k] >= 48 /\ name[k] <= 57)
          \/ name[k] = 95
          \/ name[k] >= 160

\* CodegenContext::new
NewCodegenContext(gopts) ==
    [prefix_identifiers |-> IF gopts.prefix_identifiers = "None" THEN gopts.mode = "Module"
                            ELSE gopts.prefix_identifiers = "Some(true)",
     ssr |-> gopts.ssr, in_ssr |-> gopts.in_ssr, mode |-> gopts.mode,
     optimize_imports |-> gopts.optimize_imports,
     code |-> <<>>, indent_level |-> 0, pure |-> FALSE,
     dev |-> gopts.dev, browser |-> gopts.browser, panic |-> "none"]

\* CodegenContext::push
push(g, text) == [g EXCEPT !.code = Append(@, [kind |-> "lit", text |-> text])]
push_src(g, str) == [g EXCEPT !.code = Append(@, [kind |-> "src", str |-> str])]
push_json(g, str) == [g EXCEPT !.code = Append(@, [kind |-> "json", str |-> str])]

\* a push of format!("{}...", context.helper(name))
push_helper(g, name) == [g EXCEPT !.code = Append(@, [kind |-> "helper", name |-> name])]

\* a push of the list of helpers that writes the last helper first
push_aliases_reversed(g, helpers, form, open, close) ==
    [g EXCEPT !.code =
        (@ \o <<[kind |-> "lit", text |-> open]>>)
        \o [k \in 1..Len(helpers) |->
               [kind |-> "alias", name |-> helpers[Len(helpers) + 1 - k], form |-> form]]
        \o <<[kind |-> "lit", text |-> close]>>]

\* a push of a list of helpers, each written by form: "h: _h", "h as _h",
\* "h" or "_h = h"
push_aliases(g, helpers, form, open, close) ==
    [g EXCEPT !.code =
        (@ \o <<[kind |-> "lit", text |-> open]>>)
        \o [k \in 1..Len(helpers) |-> [kind |-> "alias", name |-> helpers[k], form |-> form]]
        \o <<[kind |-> "lit", text |-> close]>>]

\* CodegenContext::newline, indent, deindent
newline(g) == [g EXCEPT !.code = Append(@, [kind |-> "newline", indent |-> g.indent_level])]
indent(g) == newline([g EXCEPT !.indent_level = @ + 1])
\* `indent_level -= 1` on a usize: the subtraction overflows at zero
indent_level_down(g) ==
    IF g.indent_level = 0 THEN [g EXCEPT !.panic = "overflow"]
    ELSE [g EXCEPT !.indent_level = @ - 1]

\* a deindent that leaves the level as it is when it writes no line break
deindent_keeping_level(g, without_new_line) ==
    IF without_new_line THEN g ELSE newline(indent_level_down(g))

deindent(g, without_new_line) ==
    IF without_new_line THEN indent_level_down(g) ELSE newline(indent_level_down(g))

pure_annotation(g) == IF g.pure THEN push(g, "/*@__PURE__*/") ELSE g

RECURSIVE gen_node(_, _)
RECURSIVE gen_node_list(_, _, _, _)

\* gen_node_list_as_array
as_array_multilines(nodes, g) ==
    \/ Len(nodes) > 3
    \/ ((~g.browser \/ g.dev) /\ \E k \in 1..Len(nodes) : nodes[k].kind = "CodegenNode")
gen_node_list_as_array(nodes, g) ==
    IF as_array_multilines(nodes, g)
    THEN push(deindent(gen_node_list(nodes, indent(push(g, "[")), 1, TRUE), FALSE), "]")
    ELSE push(gen_node_list(nodes, push(g, "["), 1, FALSE), "]")

\* gen_node_list, one node of the list
gen_list_node(n, g) ==
    IF n.kind = "String" THEN push_src(g, n.str)
    ELSE IF n.kind = "TemplateChildNodeList"
    THEN gen_node_list_as_array(
             [k \in 1..Len(n.list) |-> [kind |-> "CodegenNode", node |-> n.list[k]]], g)
    ELSE gen_node(n.node, g)

\* gen_node_list, what follows node k
gen_list_separator(nodes, g, k, multilines) ==
    IF k >= Len(nodes) THEN g
    ELSE IF multilines THEN newline(push(g, ","))
    ELSE push(g, ", ")

\* gen_node_list(nodes, context, multilines, None), from node k on
gen_node_list(nodes, g, k, multilines) ==
    IF k > Len(nodes) THEN g
    ELSE gen_node_list(nodes,
                       gen_list_separator(nodes, gen_list_node(nodes[k], g), k, multilines),
                       k + 1, multilines)

\* gen_text, gen_expression
gen_text(node, g) == push_json(g, node.content)
gen_expression(node, g) ==
    IF node.is_static THEN push_json(g, node.content) ELSE push_src(g, node.content)

\* gen_interpolation
gen_interpolation(node, g) ==
    push(gen_node(node.content, push(push_helper(pure_annotation(g), ToDisplayString), "(")),
         ")")

\* gen_expression_as_property_key of a simple expression
gen_expression_as_property_key(node, g) ==
    IF node.is_static
    THEN (IF is_simple_identifier(node.content) THEN push_src(g, node.content)
          ELSE push_json(g, node.content))
    ELSE push(push_src(push(g, "["), node.content), "]")

\* gen_comment
gen_comment(node, g) ==
    push(push_json(push(push_helper(pure_annotation(g), CreateComment), "("), node.content),
         ")")

\* gen_vnode_call, the patch flag as it is written: the bits, and in a
\* development build the names of the flags of PatchFlags::keys() it holds
patch_flag_names(bits) ==
    (IF (bits \div PatchFlags_Text) % 2 = 1 THEN << <<84, 69, 88, 84>> >> ELSE <<>>)
    \o (IF (bits \div PatchFlags_FullProps) % 2 = 1
        THEN << <<70, 85, 76, 76, 95, 80, 82, 79, 80, 83>> >> ELSE <<>>)
    \o (IF (bits \div PatchFlags_StableFragment) % 2 = 1
        THEN << <<83, 84, 65, 66, 76, 69, 95, 70, 82, 65, 71, 77, 69, 78, 84>> >> ELSE <<>>)
RECURSIVE join(_, _)
join(strs, sep) ==
    IF strs = <<>> THEN <<>>
    ELSE IF Len(strs) = 1 THEN strs[1]
    ELSE strs[1] \o sep \o join(Tail(strs), sep)

\* i16::to_string (Display of PatchFlags writes the bits)
bits_to_string(n) == IF n < 0 THEN <<45>> \o to_string(0 - n) ELSE to_string(n)

\* PatchFlags::as_str called on a negative flag: no arm of the match is a
\* negative flag, so the call ends in unreachable!()
as_str_unreachable(node, dev) ==
    dev /\ ~IsNone(node.patch_flag) /\ node.patch_flag.bits < 0

patch_flag_string(flag, dev) ==
    IF dev
    THEN bits_to_string(flag.bits) \o <<32, 47, 42, 32>>
         \o join(patch_flag_names(flag.bits), <<44, 32>>) \o <<32, 42, 47>>
    ELSE bits_to_string(flag.bits)

Str_null == <<110, 117, 108, 108>>

\* the arguments without the `null` that stands for a missing one
vnode_call_nodes_present_only(node, dev) ==
    <<[kind |-> "String", str |-> node.tag]>>
    \o (IF ~IsNone(node.props) THEN <<[kind |-> "CodegenNode", node |-> node.props]>>
        ELSE <<>>)
    \o (IF ~IsNone(node.children) THEN <<node.children>> ELSE <<>>)
    \o (IF ~IsNone(node.patch_flag)
        THEN <<[kind |-> "String", str |-> patch_flag_string(node.patch_flag, dev)]>>
        ELSE <<>>)

\* gen_vnode_call, the arguments: the tag, then the props, the children and
\* the patch flag, with `null` for a missing one before a present one
vnode_call_nodes(node, dev) ==
    <<[kind |-> "String", str |-> node.tag]>>
    \o (IF ~IsNone(node.props) THEN <<[kind |-> "CodegenNode", node |-> node.props]>>
        ELSE IF ~IsNone(node.children) \/ ~IsNone(node.patch_flag)
        THEN <<[kind |-> "String", str |-> Str_null]>>
        ELSE <<>>)
    \o (IF ~IsNone(node.children) THEN <<node.children>>
        ELSE IF ~IsNone(node.patch_flag) THEN <<[kind |-> "String", str |-> Str_null]>>
        ELSE <<>>)
    \o (IF ~IsNone(node.patch_flag)
        THEN <<[kind |-> "String", str |-> patch_flag_string(node.patch_flag, dev)]>>
        ELSE <<>>)

\* gen_vnode_call, the opening of a block
gen_open_block(node, g) ==
    IF node.is_block
    THEN push(push(push_helper(push(g, "("), OpenBlock),
                   IF node.disable_tracking THEN "(true" ELSE "("), "), ")
    ELSE g

gen_close_block(node, g) == IF node.is_block THEN push(g, ")") ELSE g

\* gen_vnode_call: the patch flag string is built before anything is
\* written; after a panic the code written is of no meaning
gen_vnode_call(node, g) ==
    IF as_str_unreachable(node, g.dev) THEN [g EXCEPT !.panic = "unreachable"]
    ELSE gen_close_block(node,
             push(gen_node_list(
                      vnode_call_nodes(node, g.dev),
                      push(push_helper(pure_annotation(gen_open_block(node, g)),
                                       IF node.is_block
                                       THEN get_vnode_block_helper(g.in_ssr, node.is_component)
                                       ELSE get_vnode_helper(g.in_ssr, node.is_component)),
                           "("),
                      1, FALSE),
                  ")"))

\* gen_call_expression: a String callee is written as it is, a Symbol callee
\* through CodegenContext::helper
call_argument(a) ==
    IF a.kind = "String" THEN a ELSE [kind |-> "CodegenNode", node |-> a.node]
gen_call_expression(node, g) ==
    push(gen_node_list([k \in 1..Len(node.arguments) |-> call_argument(node.arguments[k])],
                       push(IF node.callee_kind = "Symbol"
                            THEN push_helper(pure_annotation(g), node.callee)
                            ELSE push_src(pure_annotation(g), node.callee),
                            "("),
                       1, FALSE),
         ")")

\* gen_object_expression
object_multilines(properties, g) ==
    \/ Len(properties) > 1
    \/ ((~g.browser \/ g.dev)
        /\ \E k \in 1..Len(properties) : properties[k].value.type # "SimpleExpression")
RECURSIVE gen_properties(_, _, _)
gen_properties(properties, g, k) ==
    IF k > Len(properties) THEN g
    ELSE gen_properties(
             properties,
             IF k < Len(properties)
             THEN newline(push(gen_node(properties[k].value,
                                        push(gen_expression_as_property_key(
                                                 properties[k].key, g), ": ")), ","))
             ELSE gen_node(properties[k].value,
                           push(gen_expression_as_property_key(properties[k].key, g), ": ")),
             k + 1)
gen_object_expression(node, g) ==
    IF node.properties = <<>> THEN push(g, "{}")
    ELSE IF object_multilines(node.properties, g)
    THEN push(deindent(gen_properties(node.properties, indent(push(g, "{")), 1), FALSE), "}")
    ELSE push(gen_properties(node.properties, push(g, "{ "), 1), " }")

\* gen_if_conditional_expression: the test
gen_test(test, g) ==
    IF test.type = "SimpleExpression"
    THEN (IF is_simple_identifier(test.content) THEN gen_expression(test, g)
          ELSE push(gen_expression(test, push(g, "(")), ")"))
    ELSE push(gen_node(test, push(g, "(")), ")")

\* gen_if_conditional_expression: the consequent, between the two changes of
\* the indentation level
gen_consequent(node, g) ==
    indent_level_down(
        gen_node(node.consequent,
                 push(IF node.newline THEN [indent(g) EXCEPT !.indent_level = @ + 1]
                      ELSE push([g EXCEPT !.indent_level = @ + 1], " "),
                      "? ")))

\* gen_if_conditional_expression: the alternate
gen_alternate(node, g) ==
    IF node.alternate.type = "IfConditional" THEN gen_node(node.alternate, g)
    ELSE indent_level_down(gen_node(node.alternate, [g EXCEPT !.indent_level = @ + 1]))

gen_if_conditional_expression(node, g) ==
    IF node.newline
    THEN deindent(gen_alternate(node,
                      push(newline(gen_consequent(node, gen_test(node.test, g))), ": ")),
                  TRUE)
    ELSE gen_alternate(node,
             push(push(gen_consequent(node, gen_test(node.test, g)), " "), ": "))

\* gen_node: an element or an If node writes its codegen node, if it has one
gen_node(node, g) ==
    IF node.type \in {"Element", "If"}
    THEN (IF node.type = "Element" /\ node.tag_type \in {"Slot", "Template"} THEN g
          ELSE IF IsNone(codegen_node_of(node)) THEN g
          ELSE gen_node(codegen_node_of(node), g))
    ELSE IF node.type = "Text" THEN gen_text(node, g)
    ELSE IF node.type = "SimpleExpression" THEN gen_expression(node, g)
    ELSE IF node.type = "Interpolation" THEN gen_interpolation(node, g)
    ELSE IF node.type = "Comment" THEN gen_comment(node, g)
    ELSE IF node.type = "VNodeCall" THEN gen_vnode_call(node, g)
    ELSE IF node.type = "CallExpression" THEN gen_call_expression(node, g)
    ELSE IF node.type = "ObjectExpression" THEN gen_object_expression(node, g)
    ELSE IF node.type = "IfConditional" THEN gen_if_conditional_expression(node, g)
    ELSE g

\* gen_function_preamble: in prefix mode outside a browser build nothing is
\* written for the helpers; the hoists are empty, so gen_hoists returns at once
gen_function_preamble(ast, g) ==
    push(newline(
             IF ast.helpers # <<>> /\ ~(~g.browser /\ g.prefix_identifiers)
             THEN push(g, IF ~g.browser /\ g.ssr THEN "const _Vue = require(\"vue\")\n"
                          ELSE "const _Vue = Vue\n")
             ELSE g),
         "return ")

\* gen_module_preamble(ast, context, gen_scope_id, Some(false))
gen_module_preamble(ast, g) ==
    push(newline(
             IF ast.helpers = <<>> THEN g
             ELSE IF g.optimize_imports
             THEN push_aliases(
                      push_aliases(g, ast.helpers, "h", "import { ", " } from \"vue\"\n"),
                      ast.helpers, "_h = h",
                      "\n// Binding optimization for webpack code-split\nconst ", "\n")
             ELSE push_aliases(g, ast.helpers, "h as _h", "import { ", " } from \"vue\"\n")),
         "export ")

\* generate: the declarations inside the with block
gen_with_block(ast, g) ==
    IF ~g.prefix_identifiers /\ g.mode # "Module"
    THEN (IF ast.helpers # <<>>
          THEN newline(push_aliases(indent(push(g, "with (_ctx) {")), ast.helpers, "h: _h",
                                    "const { ", " } = _Vue\n"))
          ELSE indent(push(g, "with (_ctx) {")))
    ELSE g

\* generate: the end of the with block
gen_with_block_end(g) ==
    IF ~g.prefix_identifiers /\ g.mode # "Module" THEN push(deindent(g, FALSE), "}") ELSE g

\* generate: the VNode tree expression
gen_return(ast, g) ==
    IF IsNone(ast.codegen_node) THEN push(IF g.ssr THEN g ELSE push(g, "return "), "null")
    ELSE gen_node(ast.codegen_node, IF g.ssr THEN g ELSE push(g, "return "))

\* generate(ast, options), the context when it returns or panics.  The
\* transforms leave components, directives and temps empty.
generate_context(ast, gopts) ==
    push(deindent(
             gen_with_block_end(
                 gen_return(ast,
                     gen_with_block(ast,
                         indent(push(
                             IF ~gopts.browser /\ gopts.mode = "Module"
                             THEN gen_module_preamble(ast, NewCodegenContext(gopts))
                             ELSE gen_function_preamble(ast, NewCodegenContext(gopts)),
                             IF gopts.ssr
                             THEN "function ssrRender(_ctx, _push, _parent, _attrs) {"
                             ELSE "function render(_ctx, _cache) {"))))),
             FALSE),
         "}")

\* generate(ast, options): the code of the CodegenResult
generate(ast, gopts) == generate_context(ast, gopts).code

----------------------------------------------------------------------------
(* base_compile (compile.rs): base_parse, then transform with the preset of  *)
(* get_base_transform_preset, then generate.  The inputs are templates made  *)
(* of a few children and templates of one element with a v-for.              *)

\* the most children a template is made of
MaxKids == 3

\* the most aliases on the left of a v-for
MaxAliases == 3

\* <a v-if="x"/>
Frag_if ==
    <<60, 97, 32, 118, 45, 105, 102, 61, 34, 120, 34, 47, 62>>
\* <b v-else/>
Frag_else ==
    <<60, 98, 32, 118, 45, 101, 108, 115, 101, 47, 62>>
\* <b v-else-if="y"/>
Frag_else_if ==
    <<60, 98, 32, 118, 45, 101, 108, 115, 101, 45, 105, 102, 61, 34, 121, 34, 47, 62>>
\* <p/>
Frag_plain ==
    <<60, 112, 47, 62>>
\* <!--c-->
Frag_comment ==
    <<60, 33, 45, 45, 99, 45, 45, 62>>
\* {{z}}
Frag_interpolation ==
    <<123, 123, 122, 125, 125>>
\* <a :class="x"/>
Frag_class ==
    <<60, 97, 32, 58, 99, 108, 97, 115, 115, 61, 34, 120, 34, 47, 62>>
\* <a :[k]="x" :class="y"/>
Frag_dynamic_key ==
    <<60, 97, 32, 58, 91, 107, 93, 61, 34, 120, 34, 32, 58, 99, 108, 97, 115, 115, 61, 34, 121,
      34, 47, 62>>
\* <u>
Frag_open ==
    <<60, 117, 62>>
\* </u>
Frag_close ==
    <<60, 47, 117, 62>>
\* <template v-if="x">{{z}}</template>
Frag_template_if ==
    <<60, 116, 101, 109, 112, 108, 97, 116, 101, 32, 118, 45, 105, 102, 61, 34, 120, 34, 62,
      123, 123, 122, 125, 125, 60, 47, 116, 101, 109, 112, 108, 97, 116, 101, 62>>

CompileFragments ==
    { Frag_if, Frag_else, Frag_else_if, Frag_plain, Frag_comment, Frag_interpolation,
      Frag_class, Frag_dynamic_key, Frag_open, Frag_close, Frag_template_if }

\* the templates of up to MaxKids pieces
KidTemplates == {Concat(fs) : fs \in UNION {[1..n -> CompileFragments] : n \in 0..MaxKids}}

\* the aliases "a" and "b" joined by ", "
RECURSIVE join_aliases(_)
join_aliases(as) ==
    IF Len(as) = 1 THEN as[1] ELSE as[1] \o <<44, 32>> \o join_aliases(Tail(as))

\* the left sides of a v-for: up to MaxAliases aliases, in parentheses or not
ForLeftSides ==
    UNION { {join_aliases(as), <<40>> \o join_aliases(as) \o <<41>>} :
            as \in UNION {[1..n -> {<<97>>, <<98>>}] : n \in 1..MaxAliases} }

\* <a v-for="LHS in RHS"/> and <a v-for="LHS of RHS"/>
ForTemplates ==
    { <<60, 97, 32, 118, 45, 102, 111, 114, 61, 34>> \o lhs \o kw \o rhs \o <<34, 47, 62>> :
        lhs \in ForLeftSides, kw \in {<<32, 105, 110, 32>>, <<32, 111, 102, 32>>},
        rhs \in {<<98>>, <<99>>} }

\* <template v-if="x" v-for="a in b">{{z}}</template> and the same with the
\* v-for before the v-if
IfForTemplates ==
    {
      <<60, 116, 101, 109, 112, 108, 97, 116, 101, 32, 118, 45, 105, 102, 61, 34, 120, 34,
        32, 118, 45, 102, 111, 114, 61, 34, 97, 32, 105, 110, 32, 98, 34, 62, 123, 123, 122,
        125, 125, 60, 47, 116, 101, 109, 112, 108, 97, 116, 101, 62>>,
      <<60, 116, 101, 109, 112, 108, 97, 116, 101, 32, 118, 45, 102, 111, 114, 61, 34, 97,
        32, 105, 110, 32, 98, 34, 32, 118, 45, 105, 102, 61, 34, 120, 34, 62, 123, 123, 122,
        125, 125, 60, 47, 116, 101, 109, 112, 108, 97, 116, 101, 62>> }

\* <a :x="y"/>, <a :x/>, <a v-bind="o"/>, <a v-bind/> and <a :x="y" z="w"/>
BindTemplates ==
    { <<60, 97, 32, 58, 120, 61, 34, 121, 34, 47, 62>>,
      <<60, 97, 32, 58, 120, 47, 62>>,
      <<60, 97, 32, 118, 45, 98, 105, 110, 100, 61, 34, 111, 34, 47, 62>>,
      <<60, 97, 32, 118, 45, 98, 105, 110, 100, 47, 62>>,
      <<60, 97, 32, 58, 120, 61, 34, 121, 34, 32, 122, 61, 34, 119, 34, 47, 62>> }

Templates == KidTemplates \cup ForTemplates \cup IfForTemplates \cup BindTemplates

\* the parser options of a production build and of a development build in a
\* browser; both keep comments
CompileOptions ==
    { [DefaultOptions EXCEPT !.comments = TRUE],
      [DefaultOptions EXCEPT !.comments = TRUE, !.dev = TRUE, !.browser = TRUE] }

\* the TransformOptions besides the preset and the compile-time constants
TransformOptionSets ==
    { [ssr |-> FALSE, in_ssr |-> FALSE], [ssr |-> FALSE, in_ssr |-> TRUE],
      [ssr |-> TRUE, in_ssr |-> TRUE] }

\* the CodegenOptions besides the options shared with the transform and the
\* compile-time constants
CodegenOptionSets ==
    { [mode |-> "Function", prefix_identifiers |-> "None", optimize_imports |-> FALSE],
      [mode |-> "Function", prefix_identifiers |-> "Some(true)", optimize_imports |-> FALSE],
      [mode |-> "Module", prefix_identifiers |-> "None", optimize_imports |-> FALSE],
      [mode |-> "Module", prefix_identifiers |-> "None", optimize_imports |-> TRUE] }

InitCompile ==
    \E o \in CompileOptions : \E input \in Templates :
        /\ buffer = input
        /\ options = o
        /\ tokenizer = NewTokenizer(o)
        /\ phase = "parsing"
        /\ root = NoneNode
        /\ cw = CwIdle
        /\ tr = TrIdle

\* transform(&mut ast, transform_options): every dereference of current_node
\* reads the pointer as the walker meant it
Transform ==
    /\ phase = "done"
    /\ \E topts \in TransformOptionSets :
          \E r \in {transform(root, [ssr |-> topts.ssr, in_ssr |-> topts.in_ssr,
                                      dev |-> options.dev])} :
              IF r.c.panic # "none"
              THEN /\ phase' = "panicked"
                   /\ root' = root
                   /\ tr' = [stage |-> "panicked", topts |-> topts, panic |-> r.c.panic]
              ELSE /\ phase' = "transformed"
                   /\ root' = r.root
                   /\ tr' = [stage |-> "transformed", topts |-> topts, log |-> r.c.log,
                             code |-> <<>>]
    /\ UNCHANGED <<buffer, options, tokenizer, cw>>

\* transform on a root with children: current_node points to a temporary
\* that is gone when it is read (traverse_node, replace_node), so the build
\* may do anything; nothing is assumed of the tree it leaves
TransformUndefined ==
    /\ phase = "done"
    /\ root.children # <<>>
    /\ phase' = "undefined"
    /\ tr' = [stage |-> "undefined"]
    /\ UNCHANGED <<buffer, options, tokenizer, root, cw>>

\* generate(ast, codegen_options)
Generate ==
    /\ phase = "transformed"
    /\ \E gopts \in CodegenOptionSets :
          \E g \in {generate_context(root,
                                     [mode |-> gopts.mode,
                                      prefix_identifiers |-> gopts.prefix_identifiers,
                                      optimize_imports |-> gopts.optimize_imports,
                                      ssr |-> tr.topts.ssr, in_ssr |-> tr.topts.in_ssr,
                                      dev |-> options.dev, browser |-> options.browser])} :
              IF g.panic # "none"
              THEN /\ phase' = "panicked"
                   /\ tr' = [stage |-> "generate_panicked", topts |-> tr.topts,
                             gopts |-> gopts, log |-> tr.log, code |-> <<>>,
                             panic |-> g.panic]
              ELSE /\ phase' = "generated"
                   /\ tr' = [stage |-> "generated", topts |-> tr.topts, gopts |-> gopts,
                             log |-> tr.log, code |-> g.code,
                             indent_level |-> g.indent_level]
    /\ UNCHANGED <<buffer, options, tokenizer, root, cw>>

NextCompile ==
    ParseStep \/ TokenizerFinish \/ BaseParseReturn \/ Transform \/ TransformUndefined
    \/ Generate

SpecCompile == InitCompile /\ [][NextCompile]_vars

----------------------------------------------------------------------------
(* generate (codegen.rs) on its own: a RootNode built by hand, as a caller   *)
(* of generate may build it, with or without what the transforms assemble    *)

\* <a/> as the parser leaves it: no codegen node
PlainElement ==
    [type |-> "Element", ns |-> "HTML", tag |-> <<97>>, tag_type |-> "Element",
     props |-> <<>>, children |-> <<>>, is_self_closing |-> TRUE, loc |-> loc_stub]

\* the props of a call: none, or { key: 0 }
GenProps ==
    {NoneNode,
     ObjectExpression(<<Property(SimpleExpressionNode(Str_key, TRUE, loc_stub, "NotConstant"),
                                 SimpleExpressionNode(<<48>>, FALSE, loc_stub, "CanCache"))>>,
                      loc_stub)}

\* the children of a call: none, one text, a list with an element that has
\* no codegen node, a list with an element that has one
GenChildren ==
    {NoneNode,
     [type |-> "VNodeCallChildren", kind |-> "TemplateTextChildNode",
      node |-> TextNode(<<97>>, loc_stub)],
     [type |-> "VNodeCallChildren", kind |-> "TemplateChildNodeList",
      list |-> <<PlainElement, TextNode(<<97>>, loc_stub)>>],
     [type |-> "VNodeCallChildren", kind |-> "TemplateChildNodeList",
      list |-> <<with_codegen_node(PlainElement,
                     VNodeCall(<<34, 97, 34>>, NoneNode, NoneNode, NoneNode, FALSE, FALSE,
                               FALSE, loc_stub))>>]}

\* the patch flag of a call: none, flags of bits, the special flags -1 and -2
\* (PatchFlags::from_bits_retain)
GenFlags == {NoneNode} \cup {PatchFlags(b) : b \in {1, 2, 3, 64, 128, -1, -2}}

GenCalls ==
    {VNodeCall(<<34, 97, 34>>, p, c, f, b, FALSE, FALSE, loc_stub) :
        p \in GenProps, c \in GenChildren, f \in GenFlags, b \in BOOLEAN}

\* the codegen node of the root: a call, nothing, a text, an element or an If
\* node no transform gave a codegen node
\* foo() and a call whose children are a list of two
GenLeaves ==
    {CallExpression("String", <<102, 111, 111>>, <<>>),
     VNodeCall(<<34, 97, 34>>, NoneNode,
               [type |-> "VNodeCallChildren", kind |-> "TemplateChildNodeList",
                list |-> <<PlainElement, TextNode(<<97>>, loc_stub)>>],
               NoneNode, TRUE, FALSE, FALSE, loc_stub)}

\* test ? consequent : alternate, on one line or on three
IfConditionalExpression(test, consequent, alternate, need_new_line) ==
    [type |-> "IfConditional", test |-> test, consequent |-> consequent,
     alternate |-> alternate, newline |-> need_new_line]

\* the tests `ok` and `a.b`
GenTests ==
    {SimpleExpressionNode(<<111, 107>>, FALSE, loc_stub, "NotConstant"),
     SimpleExpressionNode(<<97, 46, 98>>, FALSE, loc_stub, "NotConstant")}

\* conditionals of leaves
GenFlatConditionals ==
    {IfConditionalExpression(t, c, a, nl) :
        t \in GenTests, c \in GenLeaves, a \in GenLeaves, nl \in BOOLEAN}

\* conditionals with a conditional as the alternate (chained) or as the
\* consequent (nested)
GenDeepConditionals ==
    {IfConditionalExpression(SimpleExpressionNode(<<111, 107>>, FALSE, loc_stub, "NotConstant"),
                             c, a, nl) :
        c \in GenLeaves, a \in GenFlatConditionals, nl \in BOOLEAN}
    \cup
    {IfConditionalExpression(SimpleExpressionNode(<<111, 107>>, FALSE, loc_stub, "NotConstant"),
                             c, a, nl) :
        c \in GenFlatConditionals, a \in GenLeaves, nl \in BOOLEAN}

\* the If nodes that carry a conditional
GenIfNodes ==
    {[type |-> "If", branches |-> <<>>, codegen_node |-> n, loc |-> loc_stub] :
        n \in GenFlatConditionals \cup GenDeepConditionals}

GenCodegenNodes ==
    GenCalls \cup GenIfNodes
    \cup {NoneNode, TextNode(<<97>>, loc_stub), PlainElement,
          [type |-> "If", branches |-> <<>>, codegen_node |-> NoneNode, loc |-> loc_stub]}

GenRoots ==
    {[type |-> "Root", source |-> <<>>, children |-> <<>>, loc |-> loc_stub,
      codegen_node |-> n, helpers |-> <<CreateElementVNode>>, components |-> <<>>,
      directives |-> <<>>, hoists |-> <<>>, temps |-> 0, transformed |-> TRUE] :
        n \in GenCodegenNodes}

InitGenerate ==
    \E o \in CompileOptions : \E ast \in GenRoots : \E topts \in TransformOptionSets :
        /\ buffer = <<>>
        /\ options = o
        /\ tokenizer = NewTokenizer(o)
        /\ phase = "transformed"
        /\ root = ast
        /\ cw = CwIdle
        /\ tr = [stage |-> "transformed", topts |-> topts, log |-> <<>>, code |-> <<>>]

NextGenerate == Generate

SpecGenerate == InitGenerate /\ [][NextGenerate]_vars

----------------------------------------------------------------------------
(* get_constant_type_with_compound (transforms/cache_static.rs) on its own:  *)
(* a compound expression and the constant type computed for it               *)

\* ConstantTypes derives PartialOrd: the variants in declaration order
ConstantTypes == <<"NotConstant", "CanSkipPatch", "CanCache", "CanStringify">>
const_rank(t) == CHOOSE k \in 1..Len(ConstantTypes) : ConstantTypes[k] = t

\* CompoundExpressionNode::new
CompoundExpressionNode(children) ==
    [type |-> "CompoundExpression", children |-> children, loc |-> loc_stub]

\* CompoundExpressionNodeChild::String
StringChild(str) == [type |-> "String", str |-> str]

RECURSIVE get_constant_type_with_compound(_)

\* get_constant_type_with_compound, `let child_type = match child`; a String
\* child is skipped before this is asked
compound_child_type(child) ==
    IF child.type = "SimpleExpression" THEN child.const_type
    ELSE IF child.type = "CompoundExpression" THEN get_constant_type_with_compound(child)
    ELSE IF child.type = "Interpolation"
    THEN (IF child.content.type = "SimpleExpression" THEN child.content.const_type
          ELSE get_constant_type_with_compound(child.content))
    ELSE "NotConstant"

\* get_constant_type_with_compound, the loop from child k on
RECURSIVE compound_type_from(_, _, _)
compound_type_from(children, k, return_type) ==
    IF k > Len(children) THEN return_type
    ELSE IF children[k].type = "String" THEN compound_type_from(children, k + 1, return_type)
    ELSE IF compound_child_type(children[k]) = "NotConstant" THEN "NotConstant"
    ELSE IF const_rank(compound_child_type(children[k])) < const_rank(return_type)
    THEN compound_type_from(children, k + 1, compound_child_type(children[k]))
    ELSE compound_type_from(children, k + 1, return_type)

get_constant_type_with_compound(node) == compound_type_from(node.children, 1, "CanStringify")

\* get_constant_type of a template child; any other node is todo!()
get_constant_type(node) ==
    IF node.type \in {"Text", "Comment"} THEN "CanStringify"
    ELSE IF node.type = "Interpolation"
    THEN (IF node.content.type = "SimpleExpression" THEN node.content.const_type
          ELSE get_constant_type_with_compound(node.content))
    ELSE IF node.type = "CompoundExpression" THEN get_constant_type_with_compound(node)
    ELSE "todo"

\* the most children of the compound expression
MaxCompound == 3

\* the children without a compound inside: simple expressions of every
\* constant type, a static one, interpolations, a text and the string " + "
LeafChildren ==
    {SimpleExpressionNode(<<120>>, FALSE, loc_stub, ConstantTypes[k]) :
        k \in 1..Len(ConstantTypes)}
    \cup {InterpolationNode(SimpleExpressionNode(<<120>>, FALSE, loc_stub, t), loc_stub) :
             t \in {"NotConstant", "CanCache"}}
    \cup {SimpleExpressionNode(<<97>>, TRUE, loc_stub, "NotConstant"),
          TextNode(<<97>>, loc_stub), StringChild(<<32, 43, 32>>)}

\* compound expressions of at most one leaf
InnerCompounds ==
    {CompoundExpressionNode(<<>>)} \cup {CompoundExpressionNode(<<c>>) : c \in LeafChildren}

CompoundChildren ==
    LeafChildren \cup InnerCompounds \cup {InterpolationNode(c, loc_stub) : c \in InnerCompounds}

CompoundInputs ==
    {CompoundExpressionNode(cs) :
        cs \in UNION {[1..n -> CompoundChildren] : n \in 0..MaxCompound}}

InitConst ==
    \E node \in CompoundInputs :
        /\ buffer = <<>>
        /\ options = DefaultOptions
        /\ tokenizer = NewTokenizer(DefaultOptions)
        /\ phase = "const"
        /\ root = NoneNode
        /\ cw = CwIdle
        /\ tr = [stage |-> "const", node |-> node, const_type |-> "unknown"]

\* get_constant_type_with_compound(&node)
GetConstantType ==
    /\ tr.stage = "const"
    /\ tr' = [tr EXCEPT !.stage = "const_done",
                        !.const_type = get_constant_type_with_compound(tr.node)]
    /\ UNCHANGED <<buffer, options, tokenizer, phase, root, cw>>

NextConst == GetConstantType

SpecConst == InitConst /\ [][NextConst]_vars

----------------------------------------------------------------------------
(* match_for_alias (utils.rs) on its own: a text and the result for it *)

\* the longest text
MaxText == 7

\* " ", "a", "i", "n", "o", "f"
TextChars == {32, 97, 105, 110, 111, 102}

MatchTexts == UNION {[1..n -> TextChars] : n \in 0..MaxText}

InitMatch ==
    \E text \in MatchTexts :
        /\ buffer = <<>>
        /\ options = DefaultOptions
        /\ tokenizer = NewTokenizer(DefaultOptions)
        /\ phase = "match"
        /\ root = NoneNode
        /\ cw = CwIdle
        /\ tr = [stage |-> "match", text |-> text, result |-> NoneNode]

\* match_for_alias(&text)
MatchForAlias ==
    /\ tr.stage = "match"
    /\ tr' = [tr EXCEPT !.stage = "match_done", !.result = match_for_alias(tr.text)]
    /\ UNCHANGED <<buffer, options, tokenizer, phase, root, cw>>

NextMatch == MatchForAlias

SpecMatch == InitMatch /\ [][NextMatch]_vars

----------------------------------------------------------------------------
(* Properties of base_parse *)

ErrorsAt(code, offset) ==
    {i \in 1..Len(tokenizer.errors) :
        tokenizer.errors[i].code = code /\ tokenizer.errors[i].loc.start.offset = offset}

\* the input is consumed and Tokenizer::finish has been entered
AtEndOfInput == phase \in {"ended", "done"} \/ (phase = "panicked" /\ tokenizer.index >= Len(buffer))

\* C1: no input makes base_parse abort: every run reaches the end of the input
\* and returns the root (the run never panics).
C1_NeverAborts == phase # "panicked"

\* line and column of offset o by a linear re-scan of the input
LinearPos(o) ==
    LET before == {i \in 0..(o - 1) : buffer[i + 1] = NewLine}
    IN [offset |-> o,
        line |-> 1 + Cardinality(before),
        column |-> IF before = {} THEN o + 1 ELSE o - Max(before)]

\* C2: once the input is tokenized, get_pos(o) is the line and column a linear
\* re-scan gives, for every offset o of the input.
C2_GetPosIsLinearRescan ==
    phase \in {"ended", "done"} =>
        \A o \in 0..Len(buffer) : get_pos(tokenizer, o) = LinearPos(o)

Inside(child, parent) ==
    /\ parent.loc.start.offset <= child.loc.start.offset
    /\ child.loc.end.offset <= parent.loc.end.offset

RECURSIVE LocationsNested(_)
LocationsNested(n) ==
    /\ n.loc.start.offset <= n.loc.end.offset
    /\ n.type \in {"Root", "Element"} =>
          \A i \in 1..Len(n.children) :
              Inside(n.children[i], n) /\ LocationsNested(n.children[i])

\* C3: in the tree base_parse returns every node starts no later than it ends,
\* and every child lies inside its parent, the root included.
C3_LocationsNested == phase = "done" => LocationsNested(root)

\* the same below the root: the children of every element lie inside it
C3_NestedBelowRoot ==
    phase = "done" => \A i \in 1..Len(root.children) : LocationsNested(root.children[i])

\* loc.source is the characters of the input from loc.start.offset to loc.end.offset
SourceIsSlice(loc) == loc.source = SubSeq(buffer, loc.start.offset + 1, loc.end.offset)

ExpSourceIsSlice(e) == IsNone(e) \/ SourceIsSlice(e.loc)

PropSourceIsSlice(p) ==
    /\ SourceIsSlice(p.loc)
    /\ p.type = "Attribute" =>
          SourceIsSlice(p.name_loc) /\ (IsNone(p.value) \/ SourceIsSlice(p.value.loc))
    /\ p.type = "Directive" =>
          /\ ExpSourceIsSlice(p.exp)
          /\ ExpSourceIsSlice(p.arg)
          /\ \A i \in 1..Len(p.modifiers) : SourceIsSlice(p.modifiers[i].loc)
          /\ IsNone(p.for_parse_result)
                \/ (ExpSourceIsSlice(p.for_parse_result.source)
                    /\ ExpSourceIsSlice(p.for_parse_result.value))

RECURSIVE NodeSourceIsSlice(_)
NodeSourceIsSlice(n) ==
    /\ SourceIsSlice(n.loc)
    /\ n.type = "Interpolation" => SourceIsSlice(n.content.loc)
    /\ n.type = "Element" => \A i \in 1..Len(n.props) : PropSourceIsSlice(n.props[i])
    /\ n.type \in {"Root", "Element"} =>
          \A i \in 1..Len(n.children) : NodeSourceIsSlice(n.children[i])

\* C4: every location of the returned tree (nodes, attributes, directives,
\* expressions) carries as source the input between its start and end offsets.
C4_SourceIsSlice == phase = "done" => NodeSourceIsSlice(root)

\* the offsets of the newline characters among the first n characters
NewlineOffsets(n) == {i \in 0..(n - 1) : buffer[i + 1] = NewLine}

\* C5: the newline table holds exactly the offsets of the newlines read so far
\* (all of them once the input is tokenized), each once, in increasing order.
C5_NewlineTable ==
    LET nl == tokenizer.newlines
    IN /\ \A i \in 1..(Len(nl) - 1) : nl[i] < nl[i + 1]
       /\ {nl[i] : i \in 1..Len(nl)} = NewlineOffsets(Min({tokenizer.index, Len(buffer)}))

\* a newline was skipped by fast_forward_to: the run ended inside a processing
\* instruction, whose characters after the first are all fast-forwarded over
C5_Witness ==
    /\ phase = "done"
    /\ tokenizer.state = "InProcessingInstruction"
    /\ \E i \in 1..Len(tokenizer.newlines) : tokenizer.newlines[i] > tokenizer.section_start

\* the name of an attribute with the directive shorthands written out
NormalizedName(raw) ==
    IF raw = <<>> THEN raw
    ELSE IF raw[1] = Colon THEN <<118, 45>> \o Str_bind \o <<Colon>> \o Tail(raw)
    ELSE IF raw[1] = At THEN <<118, 45>> \o Str_on \o <<Colon>> \o Tail(raw)
    ELSE IF raw[1] = Number THEN <<118, 45>> \o Str_slot \o <<Colon>> \o Tail(raw)
    ELSE IF raw[1] = Dot THEN <<118, 45>> \o Str_bind \o <<Colon>> \o Tail(raw) \o <<Dot>> \o Str_prop
    ELSE raw

StackAtEndOfInput == IF phase = "panicked" THEN tokenizer.stack ELSE tokenizer.eof_stack

\* C7: at the end of the input every element still on the stack has exactly
\* one X_MISSING_END_TAG error, at the element's start offset.
C7_MissingEndTags ==
    AtEndOfInput =>
        \A i \in 1..Len(StackAtEndOfInput) :
            Cardinality(ErrorsAt("XMissingEndTag", StackAtEndOfInput[i].loc.start.offset)) = 1

\* the error that belongs to the state the input ends in
EofErrorOf(t) ==
    IF t.state \in {"BeforeTagName", "BeforeClosingTagName"} THEN "EOFBeforeTagName"
    ELSE IF t.state \in {"Interpolation", "InterpolationClose"} THEN "XMissingInterpolationEnd"
    ELSE IF t.state = "InCommentLike"
    THEN (IF t.current_sequence = Seq_cdata_end THEN "EOFInCdata" ELSE "EOFInComment")
    ELSE "EOFInTag"

EndsInsideConstruct(t) ==
    t.state \in {"BeforeTagName", "BeforeClosingTagName", "Interpolation", "InterpolationClose",
                 "InCommentLike"} \cup EOFInTagStates

ClosingTagName == get_slice(tokenizer.section_start, tokenizer.index)

\* the next step of parse ends a closing tag that matches no open element
UnmatchedClosingTag ==
    /\ phase = "parsing"
    /\ tokenizer.index < Len(buffer)
    /\ tokenizer.state = "InClosingTagName"
    /\ buffer[tokenizer.index + 1] = Gt \/ is_whitespace(buffer[tokenizer.index + 1])
    /\ slice_ok(tokenizer.section_start, tokenizer.index)
    /\ \A i \in 1..Len(tokenizer.stack) :
          ToLower(tokenizer.stack[i].tag) # ToLower(ClosingTagName)

\* the offset of the '<' of the closing tag being read: "</", then whitespace
ClosingTagLt ==
    CHOOSE o \in 0..(tokenizer.section_start - 2) :
        /\ buffer[o + 1] = Lt
        /\ buffer[o + 2] = Slash
        /\ \A i \in (o + 2)..(tokenizer.section_start - 1) : is_whitespace(buffer[i + 1])

\* exactly one X_INVALID_END_TAG at the '<', and nothing else changes
InvalidEndTagReported ==
    /\ phase' = "parsing"
    /\ Len(tokenizer'.errors) = Len(tokenizer.errors) + 1
    /\ SubSeq(tokenizer'.errors, 1, Len(tokenizer.errors)) = tokenizer.errors
    /\ Last(tokenizer'.errors).code = "XInvalidEndTag"
    /\ Last(tokenizer'.errors).loc.start.offset = ClosingTagLt
    /\ tokenizer'.stack = tokenizer.stack
    /\ tokenizer'.current_root_children = tokenizer.current_root_children

\* C9: a closing tag that matches no element on the stack reports exactly one
\* X_INVALID_END_TAG at its '<', adds no node and leaves stack and nodes alone.
C9_InvalidEndTag == [][UnmatchedClosingTag => InvalidEndTagReported]_vars

\* C9 amended: the same for a closing tag whose name is not a void tag (the
\* closing tag of a void tag is dropped without an error).
C9_InvalidEndTagNotVoid ==
    [][(UnmatchedClosingTag /\ ~is_void_tag(ClosingTagName)) => InvalidEndTagReported]_vars

\* an unmatched closing tag was reported while an element was open
C9_Witness ==
    \E i \in 1..Len(tokenizer.errors) : \E j \in 1..Len(tokenizer.stack) :
        /\ tokenizer.errors[i].code = "XInvalidEndTag"
        /\ tokenizer.stack[j].loc.start.offset < tokenizer.errors[i].loc.start.offset

\* C10: condensing a child list that condense_whitespace produced, with the
\* same should_condense and in_pre, returns it unchanged, for every list of
\* text, comment and element children.
C10_CondenseIdempotent == cw.applied = "twice" => cw.twice = cw.once

NoAdjacentText(nodes) ==
    \A i \in 1..(Len(nodes) - 1) : ~(nodes[i].type = "Text" /\ nodes[i + 1].type = "Text")

\* a carriage return directly before a "\r\n"
HasCrCrLf(str) ==
    \E i \in 1..(Len(str) - 2) :
        str[i] = CarriageReturn /\ str[i + 1] = CarriageReturn /\ str[i + 2] = NewLine

CondenseStable(c) ==
    /\ NoAdjacentText(c.nodes)
    /\ c.in_pre # 0 =>
          \A i \in 1..Len(c.nodes) : c.nodes[i].type = "Text" => ~HasCrCrLf(c.nodes[i].content)

\* C10 amended: condensing again returns the list unchanged when no two text
\* children are adjacent (as in every list the parser builds) and, inside
\* <pre>, no text has a carriage return directly before a "\r\n".
C10_CondenseIdempotentWhenStable ==
    (cw.applied = "twice" /\ CondenseStable(cw)) => cw.twice = cw.once

\* a list that condensing changed, with text left in it, condensed again
C10_Witness ==
    /\ cw.applied = "twice"
    /\ CondenseStable(cw)
    /\ cw.once # cw.nodes
    /\ \E i \in 1..Len(cw.once) : cw.once[i].type = "Text"

----------------------------------------------------------------------------
(* Properties of transform *)

\* the child lists of the tree below a child list: the list itself and the
\* lists of the elements in it
RECURSIVE child_lists(_)
child_lists(ch) ==
    {ch} \cup UNION {child_lists(ch[i].children) :
                         i \in {k \in 1..Len(ch) : ch[k].type = "Element"}}

\* the If nodes of a child list, by index
if_nodes(ch) == {j \in 1..Len(ch) : ch[j].type = "If"}

\* the sibling ch[m] stands between the If node ch[j] and the element that
\* became the branch b
stands_between(ch, j, m, b) ==
    /\ ch[m].loc.start.offset >= ch[j].loc.end.offset
    /\ ch[m].loc.end.offset <= b.loc.start.offset

\* the sibling ch[m] is an element that became a branch of the If node ch[j]
is_branch_of(ch, j, m) ==
    \E k \in 2..Len(ch[j].branches) : ch[j].branches[k].loc = ch[m].loc

\* C11: an element with v-else or v-else-if becomes the new last branch of the
\* nearest preceding sibling If node, with only comments (and the earlier
\* branches of that If node) between the two, and it is a branch of no other
\* If node.
C11_ElseJoinsNearestIf ==
    phase = "transformed" =>
        \A ch \in child_lists(root.children) : \A j \in if_nodes(ch) :
            \A k \in 2..Len(ch[j].branches) :
                /\ ch[j].branches[k - 1].loc.start.offset < ch[j].branches[k].loc.start.offset
                /\ \A m \in 1..Len(ch) :
                      stands_between(ch, j, m, ch[j].branches[k])
                          => (ch[m].type = "Comment" \/ is_branch_of(ch, j, m))
                /\ \A j2 \in if_nodes(ch) \ {j} :
                      \A k2 \in 1..Len(ch[j2].branches) :
                          ch[j2].branches[k2].loc # ch[j].branches[k].loc

\* C12: after transform, an element that was attached as a branch of an If
\* node is not among the children of its parent.
C12_AttachedElementRemoved ==
    phase = "transformed" =>
        \A ch \in child_lists(root.children) : \A j \in if_nodes(ch) :
            \A m \in 1..Len(ch) : ~(ch[m].type = "Element" /\ is_branch_of(ch, j, m))

\* the VNodeCalls of the conditional of an If node: the consequents and the
\* last alternate
RECURSIVE conditional_calls(_)
conditional_calls(cond) ==
    (IF cond.consequent.type = "VNodeCall" THEN {cond.consequent} ELSE {})
    \cup (IF cond.alternate.type = "IfConditional" THEN conditional_calls(cond.alternate)
          ELSE IF cond.alternate.type = "VNodeCall" THEN {cond.alternate}
          ELSE {})

\* the props of the call hold the property `key` with the value n
has_key(call, n) ==
    /\ call.props.type = "ObjectExpression"
    /\ \E p \in 1..Len(call.props.properties) :
          /\ call.props.properties[p].key.content = Str_key
          /\ call.props.properties[p].value.content = to_string(n)

\* the call is the block of the single element el, keyed n
is_element_block(call, el, n) ==
    call.tag = <<34>> \o el.tag \o <<34>> /\ call.is_block /\ has_key(call, n)

\* the call is a Fragment block with STABLE_FRAGMENT
is_fragment_block(call) ==
    /\ call.tag = Fragment
    /\ call.is_block
    /\ call.patch_flag = PatchFlags(PatchFlags_StableFragment)

\* C13: the codegen of a branch whose children are a single Element is the
\* VNodeCall of that element as a block, keyed with the key index of the
\* branch; the codegen of any other branch is a Fragment block with
\* STABLE_FRAGMENT.
C13_SingleElementBranchReusesCall ==
    phase = "transformed" =>
        \A ch \in child_lists(root.children) : \A j \in if_nodes(ch) :
            \A k \in 1..Len(ch[j].branches) :
                \A call \in conditional_calls(ch[j].codegen_node) :
                    call.loc = ch[j].branches[k].loc =>
                        IF Len(ch[j].branches[k].children) = 1
                           /\ ch[j].branches[k].children[1].type = "Element"
                        THEN is_element_block(call, ch[j].branches[k].children[1],
                                              branches_before(ch, j - 1) + k - 1)
                        ELSE is_fragment_block(call)

\* C14: for every visited node the enter phases fire in registration order,
\* and the exit phases fire in reverse registration order, after every phase
\* of the visits of its children.
C14_EnterInOrderExitInReverse ==
    phase = "transformed" =>
        \A i \in 1..Len(tr.log) : \A j \in 1..Len(tr.log) :
            /\ (i < j /\ tr.log[i].visit = tr.log[j].visit
                      /\ tr.log[i].ev = "enter" /\ tr.log[j].ev = "enter")
                  => tr.log[i].tf < tr.log[j].tf
            /\ (i < j /\ tr.log[i].visit = tr.log[j].visit
                      /\ tr.log[i].ev = "exit" /\ tr.log[j].ev = "exit")
                  => tr.log[i].tf > tr.log[j].tf
            /\ (tr.log[i].ev = "exit" /\ tr.log[j].parent = tr.log[i].visit) => j < i

\* C15: every helper that generate writes into the code is one of ast.helpers.
C15_EmittedHelpersRegistered ==
    phase = "generated" =>
        \A i \in 1..Len(tr.code) :
            tr.code[i].kind = "helper" =>
                \E h \in 1..Len(root.helpers) : root.helpers[h] = tr.code[i].name

\* the helper names of the aliases that the code writes in one form
alias_names(code, form) ==
    LET is_form(t) == t.kind = "alias" /\ t.form = form
    IN [k \in 1..Len(SelectSeq(code, is_form)) |-> SelectSeq(code, is_form)[k].name]

\* no name stands twice in the list
each_once(names) ==
    \A i \in 1..Len(names) : \A j \in 1..Len(names) : names[i] = names[j] => i = j

RECURSIVE vnode_calls(_)
vnode_calls(ch) ==
    UNION { IF ch[i].type = "Element"
            THEN (IF codegen_node_of(ch[i]).type = "VNodeCall"
                  THEN {codegen_node_of(ch[i])} ELSE {})
                 \cup vnode_calls(ch[i].children)
            ELSE IF ch[i].type = "If"
            THEN (IF ch[i].codegen_node.type = "IfConditional"
                  THEN conditional_calls(ch[i].codegen_node) ELSE {})
                 \cup UNION {vnode_calls(ch[i].branches[k].children) :
                                k \in 1..Len(ch[i].branches)}
            ELSE {} : i \in 1..Len(ch) }

\* every VNodeCall of the transformed root, the one of the root included
root_vnode_calls ==
    vnode_calls(root.children)
    \cup (IF root.codegen_node.type = "VNodeCall" THEN {root.codegen_node} ELSE {})

\* the i16 of the patch flag of a call, 0 without one
flag_bits(call) == IF IsNone(call.patch_flag) THEN 0 ELSE call.patch_flag.bits

\* the bit f (a power of two) is set in the non-negative b
has_bit(b, f) == (b \div f) % 2 = 1

\* C17: in every VNodeCall the transforms produce, FULL_PROPS is not set
\* together with CLASS (2), STYLE (4) or PROPS (8), and a negative patch flag
\* is one special value, not a combination with positive bits.
C17_PatchFlagExclusive ==
    phase = "transformed" =>
        \A call \in root_vnode_calls :
            /\ flag_bits(call) \in -32768..32767
            /\ flag_bits(call) < 0 => flag_bits(call) \in {-1, -2}
            /\ flag_bits(call) >= 0 =>
                  ~(has_bit(flag_bits(call), PatchFlags_FullProps)
                    /\ \E f \in {PatchFlags_Class, 4, 8} : has_bit(flag_bits(call), f))

\* the props object has a key that is not static
has_dynamic_key(call) ==
    /\ call.props.type = "ObjectExpression"
    /\ \E p \in 1..Len(call.props.properties) : ~is_static_key(call.props.properties[p])

\* the props object has the static key `class`
has_class_key(call) ==
    /\ call.props.type = "ObjectExpression"
    /\ class_key_index(call.props.properties) # 0

\* one element got CLASS for its class binding, another has a class binding
\* next to a dynamic key
C17_Witness ==
    /\ phase = "transformed"
    /\ \E call \in root_vnode_calls :
          has_class_key(call) /\ ~has_dynamic_key(call)
              /\ flag_bits(call) = PatchFlags_Class
    /\ \E call \in root_vnode_calls : has_class_key(call) /\ has_dynamic_key(call)

\* the constant type a child of a compound expression has by itself: the
\* const_type of a simple expression, get_constant_type of a text or an
\* interpolation, the computed type of a compound, CanStringify for a string
child_constant_type(child) ==
    IF child.type = "String" THEN "CanStringify"
    ELSE IF child.type = "SimpleExpression" THEN child.const_type
    ELSE get_constant_type(child)

\* the least of the constant types of the children, CanStringify for none
min_constant_type(children) ==
    IF children = <<>> THEN "CanStringify"
    ELSE ConstantTypes[Min({const_rank(child_constant_type(children[k])) :
                               k \in 1..Len(children)})]

\* C18: the constant type computed for a compound expression is the minimum
\* of the constant types of its children in the order NotConstant <
\* CanSkipPatch < CanCache < CanStringify, a plain string counting as
\* CanStringify.
C18_CompoundTypeIsMinimum ==
    tr.stage = "const_done" => tr.const_type = min_constant_type(tr.node.children)

----------------------------------------------------------------------------
(* Properties of the v-for expression parsing *)

\* the v-for directives of an element that have a parse result
for_directives_of(el) ==
    {el.props[k] : k \in {n \in 1..Len(el.props) :
                             /\ el.props[n].type = "Directive"
                             /\ el.props[n].name = Str_for
                             /\ ~IsNone(el.props[n].for_parse_result)}}

\* the v-for directives with a parse result on the elements of the tree
for_directives ==
    UNION { UNION {for_directives_of(ch[i]) :
                      i \in {j \in 1..Len(ch) : ch[j].type = "Element"}} :
            ch \in child_lists(root.children) }

\* the char index of the first ` in ` or ` of ` of the value
for_keyword_index(value) ==
    Min({i \in 0..(Len(value) - 4) :
            SubSeq(value, i + 1, i + 4) \in {<<32, 105, 110, 32>>, <<32, 111, 102, 32>>}})

\* LHS and RHS of the value `LHS in RHS`
for_lhs(value) == SubSeq(value, 1, for_keyword_index(value))
for_rhs(value) == SubSeq(value, for_keyword_index(value) + 5, Len(value))

\* the text without one enclosing pair of parentheses
unwrap_parens(str) ==
    IF Len(str) >= 2 /\ str[1] = 40 /\ Last(str) = 41 THEN SubSeq(str, 2, Len(str) - 1)
    ELSE str

\* the pieces of the text between its commas
RECURSIVE split_commas(_)
split_commas(str) ==
    IF \E i \in 1..Len(str) : str[i] = 44
    THEN <<SubSeq(str, 1, Min({i \in 1..Len(str) : str[i] = 44}) - 1)>>
         \o split_commas(SubSeq(str, Min({i \in 1..Len(str) : str[i] = 44}) + 1, Len(str)))
    ELSE <<str>>

\* the comma-separated aliases of LHS, trimmed
for_aliases(value) ==
    [k \in 1..Len(split_commas(unwrap_parens(trim(for_lhs(value))))) |->
        trim(split_commas(unwrap_parens(trim(for_lhs(value))))[k])]

\* the expression e is the k-th alias, or None when there is no k-th alias
is_alias(e, aliases, k) ==
    IF k <= Len(aliases) /\ aliases[k] # <<>>
    THEN ~IsNone(e) /\ e.content = aliases[k]
    ELSE IsNone(e)

\* C19: for a v-for value `LHS in RHS` or `LHS of RHS` the parse result has
\* source = RHS, and value, key and index are the first, second and third
\* comma-separated alias of LHS (trimmed, one enclosing pair of parentheses
\* removed); an absent alias position is None.
C19_ForAliasesSplit ==
    phase = "done" =>
        \A d \in for_directives :
            /\ d.for_parse_result.source.content = trim(for_rhs(d.exp.content))
            /\ is_alias(d.for_parse_result.value, for_aliases(d.exp.content), 1)
            /\ is_alias(d.for_parse_result.key, for_aliases(d.exp.content), 2)
            /\ is_alias(d.for_parse_result.index, for_aliases(d.exp.content), 3)

\* the expression e of the parse result of d stands at its start offset in
\* the attribute value: the characters of the value from there are its content
stands_at_offset(d, e) ==
    /\ e.loc.start.offset >= d.exp.loc.start.offset
    /\ SubSeq(d.exp.content, e.loc.start.offset - d.exp.loc.start.offset + 1,
              e.loc.start.offset - d.exp.loc.start.offset + Len(e.content)) = e.content

\* C20: every alias expression and the source expression of a v-for parse
\* result starts at the offset at which its text stands in the attribute
\* value: the aliases inside LHS, the source after the keyword, also when
\* the text of the source occurs in LHS too.
C20_ForOffsetsInValue ==
    phase = "done" =>
        \A d \in for_directives :
            /\ stands_at_offset(d, d.for_parse_result.source)
            /\ d.for_parse_result.source.loc.start.offset
                  >= d.exp.loc.start.offset + for_keyword_index(d.exp.content) + 4
            /\ \A e \in {d.for_parse_result.value, d.for_parse_result.key,
                         d.for_parse_result.index} :
                  ~IsNone(e) =>
                      /\ stands_at_offset(d, e)
                      /\ e.loc.start.offset + Len(e.content)
                            <= d.exp.loc.start.offset + for_keyword_index(d.exp.content)

----------------------------------------------------------------------------
(* Properties of match_for_alias *)

\* the index of the first character from i on that is not whitespace, or
\* Len(text) + 1
first_non_space(text, i) ==
    Min({m \in i..(Len(text) + 1) : m = Len(text) + 1 \/ ~char_is_whitespace(text[m])})

\* \s+(?:in|of)\s+\S matches the text from index i on: whitespace from i up
\* to the keyword, whitespace after the keyword, then a character
pattern_from(text, i) ==
    /\ char_is_whitespace(text[i])
    /\ first_non_space(text, i) + 2 <= Len(text)
    /\ SubSeq(text, first_non_space(text, i), first_non_space(text, i) + 1)
          \in {<<105, 110>>, <<111, 102>>}
    /\ char_is_whitespace(text[first_non_space(text, i) + 2])
    /\ first_non_space(text, first_non_space(text, i) + 2) <= Len(text)

\* the indices at which the pattern after the first group matches
pattern_starts(text) == {i \in 1..Len(text) : pattern_from(text, i)}

\* the match of ([\s\S]*?)\s+(?:in|of)\s+(\S[\s\S]*): the first group is the
\* shortest prefix the rest matches after, the second group starts at the
\* first character after the whitespace that follows the keyword
pattern_match(text) ==
    IF pattern_starts(text) = {} THEN NoneNode
    ELSE [type |-> "Some",
          lhs |-> SubSeq(text, 1, Min(pattern_starts(text)) - 1),
          rhs |-> SubSeq(text,
                         first_non_space(text,
                             first_non_space(text, Min(pattern_starts(text))) + 2),
                         Len(text))]

\* C21: match_for_alias(text) is Some((lhs, rhs)) exactly when the pattern
\* ([\s\S]*?)\s+(?:in|of)\s+(\S[\s\S]*) matches text, lhs and rhs being the
\* two capture groups; otherwise it is None.
C21_MatchForAliasIsPattern ==
    tr.stage = "match_done" => tr.result = pattern_match(tr.text)

----------------------------------------------------------------------------
(* Properties of generate *)

\* the token is layout or the closing of the function or the with block
closes_function(t) == t.kind = "newline" \/ (t.kind = "lit" /\ t.text = "}")

\* the last token written before the function is closed
last_written(code) ==
    code[Max({k \in 1..Len(code) : ~closes_function(code[k])})]

\* the token opens the render function, its with block or its return
opens_function(t) ==
    /\ t.kind = "lit"
    /\ t.text \in {"return ", "with (_ctx) {", " } = _Vue\n",
                   "function render(_ctx, _cache) {",
                   "function ssrRender(_ctx, _push, _parent, _attrs) {"}

\* C22: generate never aborts, for the roots the transforms produce and for
\* malformed ones; a root whose codegen node is an element or an If node
\* that never got its codegen node writes nothing for it.
C22_GenerateNeverAborts ==
    /\ tr.stage # "generate_panicked"
    /\ (phase = "generated" /\ root.codegen_node.type \in {"Element", "If"}
           /\ IsNone(codegen_node_of(root.codegen_node)))
          => opens_function(last_written(tr.code))

\* the first token of the arguments of the first VNode call of the code
first_call_argument(code) ==
    Min({k \in 2..Len(code) :
            /\ code[k - 1].kind = "lit" /\ code[k - 1].text = "("
            /\ k > 2 /\ code[k - 2].kind = "helper" /\ code[k - 2].name # OpenBlock})

opens_bracket(t) == t.kind = "lit" /\ t.text \in {"(", "[", "{", "{ "}
closes_bracket(t) == t.kind = "lit" /\ t.text \in {")", "]", "}", " }"}

\* the arguments printed from token k to the bracket that closes the call,
\* cut at the `, ` outside every inner bracket
RECURSIVE split_arguments(_, _, _, _, _)
split_arguments(code, k, depth, cur, acc) ==
    IF k > Len(code) \/ (depth = 0 /\ closes_bracket(code[k])) THEN Append(acc, cur)
    ELSE IF depth = 0 /\ code[k].kind = "lit" /\ code[k].text = ", "
    THEN split_arguments(code, k + 1, 0, <<>>, Append(acc, cur))
    ELSE split_arguments(code, k + 1,
                         IF opens_bracket(code[k]) THEN depth + 1
                         ELSE IF closes_bracket(code[k]) THEN depth - 1 ELSE depth,
                         Append(cur, code[k]), acc)

printed_arguments(code) == split_arguments(code, first_call_argument(code), 0, <<>>, <<>>)

\* tag, props, children, patch flag of a VNodeCall: is the i-th one null
null_argument(node, i) ==
    CASE i = 1 -> FALSE
      [] i = 2 -> IsNone(node.props)
      [] i = 3 -> IsNone(node.children)
      [] i = 4 -> IsNone(node.patch_flag)

last_non_null(node) == Max({i \in 1..4 : ~null_argument(node, i)})

\* C23: the printed argument list of a VNodeCall (tag, props, children,
\* patch flag) ends with its last non-null argument, and a null argument
\* before a non-null one is printed as `null`.
C23_ArgumentsCutAfterLastNonNull ==
    (phase = "generated" /\ root.codegen_node.type = "VNodeCall")
        => /\ Len(printed_arguments(tr.code)) = last_non_null(root.codegen_node)
           /\ \A i \in 1..last_non_null(root.codegen_node) :
                 null_argument(root.codegen_node, i)
                     <=> printed_arguments(tr.code)[i] = <<[kind |-> "src", str |-> Str_null]>>

\* a call with a patch flag and neither props nor children was printed
C23_Witness ==
    /\ phase = "generated" /\ root.codegen_node.type = "VNodeCall"
    /\ IsNone(root.codegen_node.props) /\ IsNone(root.codegen_node.children)
    /\ ~IsNone(root.codegen_node.patch_flag)
    /\ Len(printed_arguments(tr.code)) = 4

----------------------------------------------------------------------------
(* Properties of RCDATA *)

Str_script == <<115, 99, 114, 105, 112, 116>>
Str_title == <<116, 105, 116, 108, 101>>
Str_textarea == <<116, 101, 120, 116, 97, 114, 101, 97>>

\* the elements of the tree below a child list
elements_below(ch) ==
    UNION {{l[i] : i \in {k \in 1..Len(l) : l[k].type = "Element"}} : l \in child_lists(ch)}

\* the elements whose content the tokenizer reads as RCDATA
rc_data_elements(ch) ==
    {el \in elements_below(ch) : el.tag \in {Str_script, Str_style, Str_title, Str_textarea}}

\* text only, and interpolations in title and textarea
only_text_children(el) ==
    \A i \in 1..Len(el.children) :
        \/ el.children[i].type = "Text"
        \/ el.children[i].type = "Interpolation" /\ el.tag \in {Str_title, Str_textarea}

\* where the content of an element without attributes starts
content_start(el) == el.loc.start.offset + Len(el.tag) + 2

\* where the children of an element end
content_end(el) ==
    IF el.children = <<>> THEN content_start(el) ELSE Last(el.children).loc.end.offset

\* the children are the input from the open tag to the closing tag or the end
\* of the input, piece by piece, and every text is the input as written
content_as_written(el) ==
    /\ el.children # <<>> => el.children[1].loc.start.offset = content_start(el)
    /\ \A i \in 1..(Len(el.children) - 1) :
          el.children[i + 1].loc.start.offset = el.children[i].loc.end.offset
    /\ \A i \in 1..Len(el.children) :
          el.children[i].type = "Text" =>
              el.children[i].content = SubSeq(buffer, el.children[i].loc.start.offset + 1,
                                              el.children[i].loc.end.offset)
    /\ \/ content_end(el) = Len(buffer)
       \/ /\ content_end(el) + Len(el.tag) + 2 <= Len(buffer)
          /\ SubSeq(buffer, content_end(el) + 1, content_end(el) + Len(el.tag) + 2)
                 = <<Lt, Slash>> \o el.tag

----------------------------------------------------------------------------
(* Properties of v-pre *)

\* the elements built so far: the open tag, the stack, the closed ones
elements_so_far ==
    elements_below(tokenizer.stack)
    \cup elements_below(tokenizer.current_root_children)
    \cup (IF IsNone(tokenizer.current_open_tag) THEN {}
          ELSE elements_below(<<tokenizer.current_open_tag>>))
    \cup (IF phase = "done" THEN elements_below(root.children) ELSE {})

\* the attribute names read while v-pre was active
names_in_v_pre ==
    {tokenizer.attr_log[k] : k \in {j \in 1..Len(tokenizer.attr_log) :
                                        tokenizer.attr_log[j].in_v_pre}}

\* C25: the v-pre directive is never among the props of an element, and a
\* prop whose name was read while v-pre was active is an Attribute named as
\* the source writes it.
C25_VPreStoresRawAttributes ==
    \A el \in elements_so_far : \A i \in 1..Len(el.props) :
        /\ ~(el.props[i].type = "Directive" /\ el.props[i].name = Str_pre)
        /\ \A e \in names_in_v_pre :
              e.start = el.props[i].loc.start.offset
                  => el.props[i].type = "Attribute" /\ el.props[i].name = e.raw

----------------------------------------------------------------------------
(* Properties of the open-element stack *)

\* the location starts at a '<' of the input
start_set(loc) == loc.start.offset < Len(buffer) /\ buffer[loc.start.offset + 1] = Lt

\* a location without an end, as get_loc(start, None) builds it: the end is
\* the start
end_unset(loc) == loc.end = loc.start

\* the end onopentagname gives: the end of the tag name
end_at_tag_name(el) == el.loc.end.offset = el.loc.start.offset + 1 + Len(el.tag)

\* C26: every element on the open-element stack has its start set and its
\* end not yet set; the end is set only when the element is closed and
\* leaves the stack.
C26_StackElementsHaveNoEnd ==
    \A j \in 1..Len(tokenizer.stack) :
        start_set(tokenizer.stack[j].loc) /\ end_unset(tokenizer.stack[j].loc)

\* C26 amended: every element on the open-element stack starts at its '<'
\* and ends where onopentagname put its end, after the tag name; another end
\* is set only when the element is closed and leaves the stack.
C26_StackElementsEndAtTagName ==
    \A j \in 1..Len(tokenizer.stack) :
        start_set(tokenizer.stack[j].loc) /\ end_at_tag_name(tokenizer.stack[j])

\* an element is on the stack above another while a third one, closed with
\* its end behind its closing tag, is already a child
C26_Witness ==
    /\ Len(tokenizer.stack) >= 1
    /\ \E i \in 1..Len(tokenizer.stack[1].children) :
          /\ tokenizer.stack[1].children[i].type = "Element"
          /\ ~end_at_tag_name(tokenizer.stack[1].children[i])
    /\ end_at_tag_name(tokenizer.stack[1])

----------------------------------------------------------------------------
(* Properties of the v-if branches *)

\* the branch holds the element it was made from, not the element's children
origin_kept(b) ==
    /\ Len(b.children) = 1
    /\ b.children[1].type = "Element"
    /\ b.children[1].loc = b.loc

\* the element the branch was made from is a Template without v-for: when
\* the branch holds the element, the element says so; a branch that holds the
\* children instead was made from a <template>
template_without_for(b) ==
    IF origin_kept(b)
    THEN b.children[1].tag_type = "Template" /\ IsNone(find_dir(b.children[1], Str_for))
    ELSE SubSeq(b.loc.source, 2, 9) = Str_template

\* C27: is_template_if of an IfBranch is true exactly when the element the
\* branch was made from is classified as Template and has no v-for.
C27_IsTemplateIf ==
    phase \in {"transformed", "generated"} =>
        \A ch \in child_lists(root.children) : \A j \in if_nodes(ch) :
            \A k \in 1..Len(ch[j].branches) :
                ch[j].branches[k].is_template_if <=> template_without_for(ch[j].branches[k])

----------------------------------------------------------------------------
(* Properties of the text nodes *)

\* no node but Text came out of the input
only_text(ch) == \A i \in 1..Len(ch) : ch[i].type = "Text"

\* every '<' of the input is lonely: no tag name, '/', '!' or '?' follows it
lonely_lt_only ==
    \A i \in 1..Len(buffer) :
        buffer[i] = Lt =>
            \/ i = Len(buffer)
            \/ /\ ~is_tag_start_char(buffer[i + 1])
               /\ buffer[i + 1] \notin {Slash, ExclamationMark, Questionmark}

\* C28: in the tree base_parse returns no parent has two adjacent Text
\* children; pieces of text that only a lonely '<' or an unterminated '{{'
\* separates are one Text node that runs from the start of the first to the
\* end of the last.
C28_NoAdjacentText ==
    phase = "done" =>
        /\ \A ch \in child_lists(root.children) : NoAdjacentText(ch)
        /\ (lonely_lt_only /\ only_text(root.children) /\ root.children # <<>>) =>
              /\ Len(root.children) = 1
              /\ root.children[1].loc.start.offset = 0
              /\ root.children[1].loc.end.offset = Len(buffer)

\* a text with a lonely '<' or a '{{' after its first character is the only
\* node of the tree
C28_Witness ==
    /\ phase = "done"
    /\ Len(root.children) = 1
    /\ root.children[1].type = "Text"
    /\ lonely_lt_only
    /\ \E i \in 2..(Len(buffer) - 1) : buffer[i] \in {Lt, 123}
    /\ root.children[1].loc.end.offset = Len(buffer)

----------------------------------------------------------------------------
(* Properties of the walker *)

\* the entries of the log with which a visit of traverse_node starts: the
\* enter phase of the first transform
visit_starts == {k \in 1..Len(tr.log) : tr.log[k].ev = "enter" /\ tr.log[k].tf = 1}

\* the entry with which visit v starts
start_of(v) == CHOOSE k \in visit_starts : tr.log[k].visit = v

\* C29: within one parent the children are visited strictly from left to
\* right and the node transforms run on each child exactly once, also when a
\* transform replaces or removes the current child: of two visits below the
\* same parent the later one is of a child further right, and every child of
\* the root is visited.
C29_ChildrenLeftToRightOnce ==
    phase \in {"transformed", "generated"} =>
        /\ \A k1 \in visit_starts : \A k2 \in visit_starts :
              (k1 < k2 /\ tr.log[k1].parent = tr.log[k2].parent /\ tr.log[k1].parent # 0)
                  => tr.log[k1].index < tr.log[k2].index
        /\ \A i \in 1..Len(root.children) :
              \E k \in visit_starts : tr.log[k].parent = 1 /\ tr.log[k].index = i - 1

\* the log entries after entry k
later(k) == (k + 1)..Len(tr.log)

\* after transform tr.log[k].tf removed the node of its visit: no phase of
\* that visit follows, and no other visit of the same child of the same
\* parent
removed_is_left_alone(k) ==
    /\ \A j \in later(k) : tr.log[j].visit # tr.log[k].visit
    /\ \A j \in later(k) \cap visit_starts :
          ~(/\ tr.log[j].parent = tr.log[start_of(tr.log[k].visit)].parent
            /\ tr.log[j].index = tr.log[k].index)

\* after transform tr.log[k].tf replaced the node of its visit: the
\* transforms registered after it enter on the same visit, and the children
\* of the replacement (the branches of the If node) are visited
replacement_is_walked(k) ==
    /\ \A t \in (tr.log[k].tf + 1)..Len(NodeTransforms) :
          \E j \in later(k) :
              tr.log[j].ev = "enter" /\ tr.log[j].tf = t /\ tr.log[j].visit = tr.log[k].visit
    /\ \E j \in later(k) \cap visit_starts : tr.log[j].parent = tr.log[k].visit

\* C30: when a transform removes the current node the walker runs no more
\* transform on it and does not descend into it; when a transform replaces
\* the node the remaining transforms and the descent run on the replacement.
C30_RemovedAndReplacedNodes ==
    phase \in {"transformed", "generated"} =>
        \A k \in 1..Len(tr.log) :
            /\ tr.log[k].ev = "remove" => removed_is_left_alone(k)
            /\ tr.log[k].ev = "replace" => replacement_is_walked(k)

----------------------------------------------------------------------------
(* Properties of the attached branches *)

\* the branches a v-else or v-else-if element was attached as: all but the
\* first of an If node
attached_branches ==
    UNION {UNION {{ch[j].branches[k] : k \in 2..Len(ch[j].branches)} : j \in if_nodes(ch)}
           : ch \in child_lists(root.children)}

\* the exit phase of the element transform has run on a plain element: it
\* carries the VNodeCall
exit_has_run(el) == el.tag_type = "Element" => ~IsNone(codegen_node_of(el))

\* C31: when a v-else or v-else-if element is attached as a branch, the node
\* transforms have run on the branch and on its children before the branch
\* is pushed: every plain element of the attached subtree carries its
\* codegen node.
C31_AttachedBranchIsTransformed ==
    phase \in {"transformed", "generated"} =>
        \A b \in attached_branches : \A el \in elements_below(b.children) : exit_has_run(el)

----------------------------------------------------------------------------
(* Properties of the v-pre flag *)

Str_v_pre == <<118, 45, 112, 114, 101>>

\* the end of the open tag of an element: the first '>' after its start
open_tag_end(el) ==
    Min({k \in (el.loc.start.offset + 1)..Len(buffer) : buffer[k] = Gt} \cup {Len(buffer)})

\* the open tag of the element writes v-pre
bears_v_pre(el) ==
    \E k \in (el.loc.start.offset + 1)..open_tag_end(el) :
        /\ k + 4 <= Len(buffer)
        /\ SubSeq(buffer, k, k + 4) = Str_v_pre

\* the element lies inside the element anc in the source
lies_inside(el, anc) ==
    /\ anc.loc.start.offset < el.loc.start.offset
    /\ el.loc.end.offset <= anc.loc.end.offset

\* the element is a descendant of an element that bears v-pre
below_v_pre(el) ==
    \E anc \in elements_below(root.children) : bears_v_pre(anc) /\ lies_inside(el, anc)

\* the source writes the prop as a directive: a ':' shorthand
written_as_directive(p) == buffer[p.loc.start.offset + 1] = Colon

\* C32: the v-pre flag is active exactly from the element that bears v-pre
\* until that element is closed: a directive on a descendant of it, at any
\* depth and after any nested close tag, is an Attribute, and a directive on
\* an element outside of it is a Directive.
C32_VPreCoversSubtree ==
    phase = "done" =>
        \A el \in elements_below(root.children) :
            ~bears_v_pre(el) =>
                \A i \in 1..Len(el.props) :
                    written_as_directive(el.props[i]) =>
                        (el.props[i].type = "Attribute" <=> below_v_pre(el))

----------------------------------------------------------------------------
(* Properties of the in-pre counter *)

\* a <pre> element (per is_pre_tag, in the HTML namespace) is open
pre_is_open ==
    \E i \in 1..Len(tokenizer.stack) :
        tokenizer.stack[i].ns = "HTML" /\ is_pre_tag(tokenizer.stack[i].tag)

\* the Text nodes of the returned tree
text_nodes ==
    UNION {{ch[i] : i \in {k \in 1..Len(ch) : ch[k].type = "Text"}}
           : ch \in child_lists(root.children)}

\* the text lies inside a <pre> element of the returned tree
inside_pre(txt) ==
    \E el \in elements_below(root.children) :
        /\ is_pre_tag(el.tag)
        /\ el.loc.start.offset < txt.loc.start.offset
        /\ txt.loc.end.offset <= el.loc.end.offset

\* no run of whitespace is left in the content
runs_condensed(str) ==
    \A k \in 1..(Len(str) - 1) : ~(is_whitespace(str[k]) /\ is_whitespace(str[k + 1]))

\* C33: the in-pre counter is greater than zero exactly while a <pre>
\* element is open on the stack, so the whitespace rules are skipped only for
\* text inside a <pre> element: every other text comes out condensed.
C33_InPreWhilePreOpen ==
    /\ phase = "parsing" => (tokenizer.in_pre > 0 <=> pre_is_open)
    /\ (phase = "done" /\ options.whitespace # "Preserve") =>
          \A txt \in text_nodes : ~inside_pre(txt) => runs_condensed(txt.content)

----------------------------------------------------------------------------
(* Properties of the v-bind transform *)

\* the v-bind directives of an element
bind_directives(el) ==
    {el.props[i] : i \in {k \in 1..Len(el.props) :
                              el.props[k].type = "Directive" /\ el.props[k].name = Str_bind}}

\* the elements build_props is called for
elements_with_props(ch) ==
    {el \in elements_below(ch) : el.tag_type \in {"Element", "Component"} /\ el.props # <<>>}

\* the properties of the props object of a VNodeCall
properties_of(call) == IF IsNone(call.props) THEN <<>> ELSE call.props.properties

\* the value of the property is the expression, as it is or wrapped in
\* normalizeClass
holds_value(p, exp) ==
    \/ p.value = exp
    \/ /\ p.value.type = "CallExpression"
       /\ p.value.arguments = <<[kind |-> "JSChild", node |-> exp]>>

\* C34: for every v-bind directive that reaches the element transform, with
\* or without an argument and with or without an expression, the v-bind
\* transform returns exactly one Property whose key is the directive's arg
\* and whose value is its exp; the props object of the element holds it.
C34_BindGivesOneProperty ==
    /\ phase = "done" =>
          \A el \in elements_with_props(root.children) : \A d \in bind_directives(el) :
              /\ TransformBind_transform(d).panic = "none"
              /\ Len(TransformBind_transform(d).props) = 1
              /\ TransformBind_transform(d).props[1].key = d.arg
              /\ TransformBind_transform(d).props[1].value = d.exp
    /\ phase \in {"transformed", "generated"} =>
          \A el \in elements_with_props(root.children) :
              (el.tag_type = "Element" /\ ~IsNone(codegen_node_of(el))) =>
                  \A d \in bind_directives(el) :
                      \E k \in 1..Len(properties_of(codegen_node_of(el))) :
                          /\ properties_of(codegen_node_of(el))[k].key = d.arg
                          /\ holds_value(properties_of(codegen_node_of(el))[k], d.exp)

----------------------------------------------------------------------------
(* Properties of the keys of the v-if branches *)

\* the key a branch was given: the value of the `key` property of its fragment
key_of(call) == call.props.properties[1].value.content

\* the keys of the branches in the conditional of an If node, the root
\* branch first
RECURSIVE chain_keys(_)
chain_keys(n) ==
    IF n.type = "IfConditional" THEN <<key_of(n.consequent)>> \o chain_keys(n.alternate)
    ELSE IF n.type = "VNodeCall" THEN <<key_of(n)>>
    ELSE <<>>

\* the If nodes of a child list that have their conditional
keyed_if_nodes(ch) == {j \in if_nodes(ch) : ~IsNone(ch[j].codegen_node)}

\* the first branch of the If node ch[j] has as its key the number of
\* branches of the If nodes before it, the last branch that number plus the
\* branches before it in its own chain
keys_count_branches(ch, j) ==
    /\ chain_keys(ch[j].codegen_node)[1] = to_string(branches_before(ch, j - 1))
    /\ Len(ch[j].branches) > 1 =>
          Last(chain_keys(ch[j].codegen_node))
              = to_string(branches_before(ch, j - 1) + Len(ch[j].branches) - 1)

\* no two branches of the If nodes of a child list have the same key
keys_distinct(ch) ==
    \A j1 \in keyed_if_nodes(ch) : \A j2 \in keyed_if_nodes(ch) :
        \A m1 \in 1..Len(chain_keys(ch[j1].codegen_node)) :
            \A m2 \in 1..Len(chain_keys(ch[j2].codegen_node)) :
                <<j1, m1>> # <<j2, m2>> =>
                    chain_keys(ch[j1].codegen_node)[m1] # chain_keys(ch[j2].codegen_node)[m2]

\* C35: within one parent the keys given to the branches of all If nodes are
\* pairwise distinct: each branch's key equals the number of branches that
\* precede it among the sibling if-chains of that parent.
C35_BranchKeysDistinct ==
    phase \in {"transformed", "generated"} =>
        \A ch \in child_lists(root.children) :
            /\ \A j \in keyed_if_nodes(ch) : keys_count_branches(ch, j)
            /\ keys_distinct(ch)

----------------------------------------------------------------------------
(* Properties of the elements left open at the end of the input *)

\* the elements that were open when onend ran, the innermost first, by the
\* offset they start at
unclosed_starts == [i \in 1..Len(tokenizer.eof_stack) |-> tokenizer.eof_stack[i].loc.start.offset]

\* an element that starts at the offset is among the nodes
element_among(ch, start) ==
    \E k \in 1..Len(ch) : ch[k].type = "Element" /\ ch[k].loc.start.offset = start

\* the element that starts at `start` is a child of the one that starts at
\* `parent_start` in the returned tree
child_of_element(start, parent_start) ==
    \E el \in elements_below(root.children) :
        el.loc.start.offset = parent_start /\ element_among(el.children, start)

\* C36: the elements left open at the end of the input keep their nesting
\* in the returned tree: each is a child of the element that was open
\* directly around it, and only the outermost one is a child of the root.
C36_UnclosedKeepNesting ==
    phase = "done" =>
        \A i \in 1..Len(unclosed_starts) :
            IF i = Len(unclosed_starts)
            THEN element_among(root.children, unclosed_starts[i])
            ELSE /\ child_of_element(unclosed_starts[i], unclosed_starts[i + 1])
                 /\ ~element_among(root.children, unclosed_starts[i])

----------------------------------------------------------------------------
(* Properties of a closing tag that matches an outer element *)

\* the number of elements a step took off the stack
closed_count == Len(tokenizer.stack) - Len(tokenizer'.stack)

\* the children the closed element was added to: those of the new top of
\* the stack, or those of the root
children_after_close ==
    IF tokenizer'.stack = <<>> THEN tokenizer'.current_root_children
    ELSE tokenizer'.stack[1].children

\* el is the element that was stack[k], closed, and the elements that were
\* open inside it are nested in it as they were on the stack, each the last
\* child of its enclosing element
RECURSIVE closed_as_nested(_, _)
closed_as_nested(el, k) ==
    /\ el.type = "Element"
    /\ el.tag = tokenizer.stack[k].tag
    /\ el.loc.start = tokenizer.stack[k].loc.start
    /\ k > 1 =>
          /\ el.children # <<>>
          /\ closed_as_nested(Last(el.children), k - 1)
          /\ Last(el.children).loc.end.offset <= el.loc.end.offset

\* the elements around the closed ones are still on the stack, in the same
\* order; the new top differs by the child it got
stack_around_kept ==
    \A k \in 1..Len(tokenizer'.stack) :
        IF k = 1
        THEN /\ tokenizer'.stack[1].loc.start = tokenizer.stack[closed_count + 1].loc.start
             /\ Front(tokenizer'.stack[1].children)
                    = tokenizer.stack[closed_count + 1].children
        ELSE tokenizer'.stack[k] = tokenizer.stack[closed_count + k]

\* a step of the parser in which a closing tag took elements off the stack
ClosingTagStep ==
    phase = "parsing" /\ phase' = "parsing" /\ tokenizer'.panic = "none" /\ closed_count >= 1

\* C37: a closing tag that matches an open element other than the innermost
\* one closes every element opened inside it, innermost first, each
\* becoming a child of its enclosing element, then the matched element;
\* afterwards the stack holds exactly the elements that were open around the
\* matched element.
C37_CloseTagClosesInner ==
    [][ClosingTagStep =>
          /\ children_after_close # <<>>
          /\ closed_as_nested(Last(children_after_close), closed_count)
          /\ stack_around_kept
          /\ \A k \in 1..(closed_count - 1) :
                ToLower(tokenizer.stack[k].tag) # ToLower(tokenizer.stack[closed_count].tag)]_vars

\* </a> closed the <b> that was open inside <a>: <b> ends where the closing
\* tag starts, <a> behind it, and nothing is left on the stack
C37_Witness ==
    /\ phase = "parsing"
    /\ tokenizer.stack = <<>>
    /\ Len(tokenizer.current_root_children) = 1
    /\ tokenizer.current_root_children[1].type = "Element"
    /\ Len(tokenizer.current_root_children[1].children) = 1
    /\ tokenizer.current_root_children[1].children[1].type = "Element"
    /\ tokenizer.current_root_children[1].children[1].tag
          # tokenizer.current_root_children[1].tag
    /\ tokenizer.current_root_children[1].children[1].loc.end.offset
          < tokenizer.current_root_children[1].loc.end.offset
    /\ ErrorsAt("XMissingEndTag",
                tokenizer.current_root_children[1].children[1].loc.start.offset) # {}

----------------------------------------------------------------------------
(* Properties of the sections the tokenizer emits *)

\* the calls that hand over a piece of text or of an attribute value
data_calls ==
    {k \in 1..Len(tokenizer.calls) : tokenizer.calls[k].cb \in {"ontext", "onattribdata"}}

\* C38: every (start, end) pair the tokenizer passes to a callback of the
\* parser satisfies 0 <= start <= end <= len(input), and the section start is
\* moved forward on every emission: the section being collected starts at or
\* behind the end of every emitted one, and successive text and
\* attribute-data sections never overlap.
C38_SectionsInBounds ==
    /\ \A k \in 1..Len(tokenizer.calls) :
          /\ 0 <= tokenizer.calls[k].start
          /\ tokenizer.calls[k].start <= tokenizer.calls[k].end
          /\ tokenizer.calls[k].end <= Len(buffer)
    /\ \A k1 \in data_calls : \A k2 \in data_calls :
          k1 < k2 => tokenizer.calls[k1].end <= tokenizer.calls[k2].start
    /\ (phase = "parsing" /\ tokenizer.section_start # None) =>
          \A k \in data_calls : tokenizer.calls[k].end <= tokenizer.section_start

----------------------------------------------------------------------------
(* Properties of the indentation *)

\* a node and the nodes below it that gen_node prints
RECURSIVE printed_nodes(_)
printed_nodes(n) ==
    IF n.type = "If"
    THEN (IF IsNone(n.codegen_node) THEN {n} ELSE {n} \cup printed_nodes(n.codegen_node))
    ELSE IF n.type = "IfConditional"
    THEN {n} \cup printed_nodes(n.consequent) \cup printed_nodes(n.alternate)
    ELSE {n}

\* the context of the generate call of this run, at an indentation level
context_at(level) ==
    [NewCodegenContext([mode |-> tr.gopts.mode,
                        prefix_identifiers |-> tr.gopts.prefix_identifiers,
                        optimize_imports |-> tr.gopts.optimize_imports,
                        ssr |-> tr.topts.ssr, in_ssr |-> tr.topts.in_ssr,
                        dev |-> options.dev, browser |-> options.browser])
        EXCEPT !.indent_level = level]

\* gen_node on the node, started at the level: no line break is indented
\* less than the level, no decrement overflows, and the level is back
level_kept(n, level) ==
    \A g \in {gen_node(n, context_at(level))} :
        /\ g.indent_level = level
        /\ g.panic # "overflow"
        /\ \A k \in 1..Len(g.code) :
              g.code[k].kind = "newline" => g.code[k].indent >= level

\* C39: during generate the indent level never drops below zero, and after a
\* complete node has been printed, nested and chained conditional
\* expressions included, it is back at the value it had before that node.
C39_IndentBalanced ==
    /\ tr.stage = "generate_panicked" => tr.panic # "overflow"
    /\ tr.stage = "generated" =>
          /\ tr.indent_level = 0
          /\ \A k \in 1..Len(tr.code) : tr.code[k].kind = "newline" => tr.code[k].indent >= 0
          /\ \A n \in printed_nodes(root.codegen_node) : \A level \in 0..1 :
                level_kept(n, level)

\* generate has printed a conditional with a conditional below it, each on
\* lines of its own
C39_Witness ==
    /\ tr.stage = "generated"
    /\ root.codegen_node.type = "If"
    /\ \E n \in printed_nodes(root.codegen_node) \ {root.codegen_node.codegen_node} :
          n.type = "IfConditional" /\ n.newline
    /\ \E k \in 1..Len(tr.code) : tr.code[k].kind = "newline" /\ tr.code[k].indent >= 3

----------------------------------------------------------------------------
(* Termination of Tokenizer::parse *)

\* the most fragments an input of the termination runs is made of
MaxParseFrags == 2

InitParse ==
    \E f \in Families : \E o \in f.opts :
    \E input \in {f.prefix \o Concat(fs) :
                    fs \in UNION {[1..n -> f.frags] : n \in 0..MaxParseFrags}} :
        /\ buffer = input
        /\ options = o
        /\ tokenizer = NewTokenizer(o)
        /\ phase = "parsing"
        /\ root = NoneNode
        /\ cw = CwIdle
        /\ tr = TrIdle

\* parse runs its loop and then finish without waiting for anything: a step
\* that can be taken is taken
SpecParse == InitParse /\ [][Next]_vars /\ WF_vars(Next)

\* the calls of onend among the calls noted
onend_calls == {k \in 1..Len(tokenizer.calls) : tokenizer.calls[k].cb = "onend"}

\* C40: Tokenizer.parse terminates on every finite input: every loop
\* iteration and every fast-forward moves the index forward, finish is
\* reached exactly once, and on_end is called exactly once, after all other
\* callbacks.
C40_ParseTerminates ==
    /\ [][(ParseStep /\ phase' = "parsing") => tokenizer'.index > tokenizer.index]_vars
    /\ [](\A k \in 1..Len(tokenizer.forwards) :
             tokenizer.forwards[k].to > tokenizer.forwards[k].from)
    /\ [](phase \in {"ended", "done"} => onend_calls = {Len(tokenizer.calls)})
    /\ [](phase \in {"parsing", "panicked"} => onend_calls \subseteq {Len(tokenizer.calls)})
    /\ <>(phase = "ended")

====
